---- MODULE Spec2Model ----
(***************************************************************************)
(* Tracker-mediated peer discovery and chat broadcast (daemon/tracker.py,  *)
(* daemon/peer.py).  The tracker keeps the peer table PEERS and the        *)
(* channel table CHANNELS behind LOCK and runs one handler thread per      *)
(* accepted connection; a peer keeps an inbox (messages) and a dedupe      *)
(* cache (recent_keys) and also runs one handler thread per connection,    *)
(* without any lock.  Handler threads are modelled at the granularity of   *)
(* their accesses to shared state.  Time is counted in whole seconds.      *)
(* The reverse proxy (daemon/proxy.py) keeps one round-robin counter per   *)
(* hostname behind rr_lock and runs one thread per accepted connection.    *)
(***************************************************************************)
EXTENDS Integers, Sequences, FiniteSets, TLC

VARIABLES
    now,          \* wall clock read by time.time(), in seconds
    messages,     \* Peer.messages: the peer's inbox
    recent_keys,  \* Peer._recent_keys: dedupe key -> time of last accepted occurrence
    ph,           \* the peer's connection handler threads
    plog,         \* what the peer's clients saw, one record per answered request,
                  \* and what the peer's own calls to the tracker came to
    appended,     \* ids of the messages that were appended to the inbox
    nreq,         \* requests issued to the peer so far
    pwork,        \* connections waiting in the peer's listen queue
    bc,           \* the main thread of the sending peer: start, then broadcast
    srv,          \* the thread that runs Peer._run_server and its listening socket
    PEERS,        \* tracker: peer_id -> {ip, port, name, ts}
    CHANNELS,     \* tracker: channel -> {peers: set of peer_id, messages: list}
    LOCK,         \* tracker: 0 when free, else the handler thread holding it
    th,           \* the tracker's connection handler threads
    tlog,         \* what the tracker's clients saw: one record per answered request
    work,         \* connections waiting in the tracker's listen queue
    budget,       \* connections the tracker will still accept
    reg,          \* the count the last registration returned; a new key since?
    rr_index,     \* proxy: hostname -> round-robin counter
    rr_lock,      \* proxy: 0 when free, else the client thread holding it
    px,           \* the proxy's client threads
    rrlog         \* the [LoadBalancing] lines the proxy printed

peerVars == <<messages, recent_keys, ph, plog, appended, nreq, pwork, bc>>
trackerVars == <<PEERS, CHANNELS, LOCK, th, tlog, work, budget, reg>>
proxyVars == <<rr_index, rr_lock, px, rrlog>>
vars == <<now, srv, peerVars, trackerVars, proxyVars>>

----------------------------------------------------------------------------
(* Bounds of the model *)

MaxTime == 4          \* the clock stops here
MaxPeerReq == 3       \* requests sent to the peer
NumPeerThreads == 2   \* connection handlers of the peer that run at once
MaxTrackerTime == 2   \* the clock stops here while the tracker is observed
MaxTrackerReq == 3    \* connections the tracker accepts
NumTrackerThreads == 2 \* connection handlers of the tracker that run at once

NumProxyThreads == 3   \* client threads of the proxy that run at once
MaxProxyReq == 3       \* connections the proxy accepts

PeerThreads == 1..NumPeerThreads
ProxyThreads == 1..NumProxyThreads
TrackerThreads == 1..NumTrackerThreads

----------------------------------------------------------------------------
(* Data *)

Alice == [ip |-> "10.0.0.1", port |-> 10001, name |-> "alice"]
Bob   == [ip |-> "10.0.0.2", port |-> 10002, name |-> "bob"]
Carol == [ip |-> "10.0.0.3", port |-> 10003, name |-> "carol"]

\* json null / a key that is absent from the request object
Null == "<null>"

\* Bodies POSTed to the peer's /p2p/receive; the tracker's relayed entry
\* carries no channel.
PeerBodies ==
    { [from |-> Alice, channel |-> "team", message |-> "hi"],
      [from |-> Alice, channel |-> "team", message |-> "yo"] }

IdlePeerThread == [pc |-> "idle"]

----------------------------------------------------------------------------
(* Peer: POST /p2p/receive *)

\* obj.get(k) or default
OrDefault(v, d) == IF v = Null \/ v = "" THEN d ELSE v

\* obj.get(k)
Get(obj, k) == IF k \in DOMAIN obj THEN obj[k] ELSE Null

\* isinstance(v, dict); a JSON value that is not an object is written
\* [value |-> v]
IsDict(v) == "value" \notin DOMAIN v

\* isinstance(sender, dict), for sender = obj.get('from')
HasSender(obj) == "from" \in DOMAIN obj /\ IsDict(obj.from)

\* key = '|'.join((str(from_ip), str(from_port), channel or 'general', message or raw or ''))
\* with from_ip = '' and from_port = 0 when obj has no sender
DedupeKey(obj) ==
    LET from_ip == IF HasSender(obj) /\ "ip" \in DOMAIN obj.from THEN obj.from.ip ELSE ""
        from_port == IF HasSender(obj) /\ "port" \in DOMAIN obj.from THEN obj.from.port ELSE 0
    IN from_ip \o "|" \o ToString(from_port) \o "|"
           \o OrDefault(Get(obj, "channel"), "general") \o "|"
           \o OrDefault(Get(obj, "message"), OrDefault(Get(obj, "raw"), ""))

\* self._recent_keys.get(key): <<t>> when present, <<>> for None
CacheGet(cache, key) == IF key \in DOMAIN cache THEN <<cache[key]>> ELSE <<>>

\* the dedupe window of the mutant below
WindowInclusive(last, now_ts) ==
    /\ last # <<>>
    /\ last[1] # 0
    /\ now_ts - last[1] <= 2

\* if last and (now_ts - last) < 2.0
IsDuplicate(last, now_ts) ==
    /\ last # <<>>
    /\ last[1] # 0
    /\ now_ts - last[1] < 2

\* if len(cache) > 500: delete every entry with t < now_ts - 5.0
Prune(cache, now_ts) ==
    IF Cardinality(DOMAIN cache) > 500
    THEN [k \in {j \in DOMAIN cache : ~(cache[j] < now_ts - 5)} |-> cache[k]]
    ELSE cache

\* self._recent_keys[key] = now_ts
Recorded(cache, key, now_ts) ==
    [k \in DOMAIN cache \cup {key} |-> IF k = key THEN now_ts ELSE cache[k]]

\* self._recent_keys[key] = now_ts, then the occasional prune, when no other
\* handler touches the cache in between
CacheRecord(cache, key, now_ts) == Prune(Recorded(cache, key, now_ts), now_ts)

\* the keys that the prune loop will delete: those of list(items()) with
\* t < cutoff, none when the cache has 500 entries or fewer
Stale(cache, now_ts) == DOMAIN cache \ DOMAIN Prune(cache, now_ts)

\* json.loads(content); now_ts = time.time(); obj['ts'] = now_ts; key
PeerRecvStart(h) ==
    /\ ph[h].pc = "idle"
    /\ nreq < MaxPeerReq
    /\ \E body \in PeerBodies :
          ph' = [ph EXCEPT ![h] =
                    [pc |-> "get", id |-> nreq + 1,
                     obj |-> [from |-> body.from, channel |-> body.channel,
                              message |-> body.message, ts |-> now]]]
    /\ nreq' = nreq + 1
    /\ UNCHANGED <<srv, proxyVars, now, messages, recent_keys, plog, appended, pwork, bc, trackerVars>>

\* last = self._recent_keys.get(key)
PeerRecvGet(h) ==
    /\ ph[h].pc = "get"
    /\ ph' = [ph EXCEPT ![h] =
                 [pc |-> "check", id |-> ph[h].id, obj |-> ph[h].obj,
                  last |-> CacheGet(recent_keys, DedupeKey(ph[h].obj))]]
    /\ UNCHANGED <<srv, proxyVars, now, messages, recent_keys, plog, appended, nreq, pwork, bc, trackerVars>>

\* the mutant below restarts the window at every suppressed duplicate
PeerRecvDuplicateSliding(h) ==
    /\ ph[h].pc = "check"
    /\ IsDuplicate(ph[h].last, ph[h].obj.ts)
    /\ recent_keys' = CacheRecord(recent_keys, DedupeKey(ph[h].obj), ph[h].obj.ts)
    /\ plog' = Append(plog, [kind |-> "receive", id |-> ph[h].id,
                             key |-> DedupeKey(ph[h].obj), ts |-> ph[h].obj.ts,
                             status |-> "duplicate_ignored"])
    /\ ph' = [ph EXCEPT ![h] = IdlePeerThread]
    /\ UNCHANGED <<srv, proxyVars, now, messages, appended, nreq, pwork, bc, trackerVars>>

\* the duplicate branch: answer 'duplicate_ignored', nothing is stored
PeerRecvDuplicate(h) ==
    /\ ph[h].pc = "check"
    /\ IsDuplicate(ph[h].last, ph[h].obj.ts)
    /\ plog' = Append(plog, [kind |-> "receive", id |-> ph[h].id,
                             key |-> DedupeKey(ph[h].obj), ts |-> ph[h].obj.ts,
                             status |-> "duplicate_ignored"])
    /\ ph' = [ph EXCEPT ![h] = IdlePeerThread]
    /\ UNCHANGED <<srv, proxyVars, now, messages, recent_keys, appended, nreq, pwork, bc, trackerVars>>

\* not a duplicate: record the key and, when the cache has more than 500
\* entries, take the list of the entries to delete
PeerRecvRecord(h) ==
    /\ ph[h].pc = "check"
    /\ ~IsDuplicate(ph[h].last, ph[h].obj.ts)
    /\ LET recorded == Recorded(recent_keys, DedupeKey(ph[h].obj), ph[h].obj.ts)
           stale == Stale(recorded, ph[h].obj.ts)
       IN /\ recent_keys' = recorded
          /\ ph' = [ph EXCEPT ![h] =
                       IF stale = {}
                       THEN [pc |-> "append", id |-> ph[h].id, obj |-> ph[h].obj]
                       ELSE [pc |-> "prune", id |-> ph[h].id, obj |-> ph[h].obj,
                             stale |-> stale]]
    /\ UNCHANGED <<srv, proxyVars, now, messages, plog, appended, nreq, pwork, bc, trackerVars>>

\* the prune loop: del self._recent_keys[k] for the next listed key
PeerPruneDelete(h) ==
    /\ ph[h].pc = "prune"
    /\ \E k \in ph[h].stale :
          /\ k \in DOMAIN recent_keys
          /\ recent_keys' = [j \in DOMAIN recent_keys \ {k} |-> recent_keys[j]]
          /\ ph' = [ph EXCEPT ![h] =
                       IF ph[h].stale = {k}
                       THEN [pc |-> "append", id |-> ph[h].id, obj |-> ph[h].obj]
                       ELSE [pc |-> "prune", id |-> ph[h].id, obj |-> ph[h].obj,
                             stale |-> ph[h].stale \ {k}]]
    /\ UNCHANGED <<srv, proxyVars, now, messages, plog, appended, nreq, pwork, bc, trackerVars>>

\* the prune loop: the listed key is no longer in the cache, del raises
\* KeyError and the handler goes to its except
PeerPruneRaise(h) ==
    /\ ph[h].pc = "prune"
    /\ \E k \in ph[h].stale : k \notin DOMAIN recent_keys
    /\ ph' = [ph EXCEPT ![h] = [pc |-> "failed", id |-> ph[h].id, ts |-> ph[h].obj.ts]]
    /\ UNCHANGED <<srv, proxyVars, now, messages, recent_keys, plog, appended, nreq, pwork, bc,
                   trackerVars>>

\* the mutant below answers 'ok' and queues nothing
PeerRecvAnswerOnly(h) ==
    /\ ph[h].pc = "append"
    /\ plog' = Append(plog, [kind |-> "receive", id |-> ph[h].id,
                             key |-> DedupeKey(ph[h].obj), ts |-> ph[h].obj.ts,
                             status |-> "ok"])
    /\ ph' = [ph EXCEPT ![h] = IdlePeerThread]
    /\ UNCHANGED <<srv, proxyVars, now, messages, recent_keys, appended, nreq, pwork, bc, trackerVars>>

\* self.messages.append(obj), then answer 'ok'
PeerRecvAppend(h) ==
    /\ ph[h].pc = "append"
    /\ messages' = Append(messages, [id |-> ph[h].id, obj |-> ph[h].obj])
    /\ appended' = appended \cup {ph[h].id}
    /\ plog' = Append(plog, [kind |-> "receive", id |-> ph[h].id,
                             key |-> DedupeKey(ph[h].obj), ts |-> ph[h].obj.ts,
                             status |-> "ok"])
    /\ ph' = [ph EXCEPT ![h] = IdlePeerThread]
    /\ UNCHANGED <<srv, proxyVars, now, recent_keys, nreq, pwork, bc, trackerVars>>

\* a delivery sent by the tracker or by another peer is accepted by
\* _run_server and handled like any other POST /p2p/receive
PeerRecvAccept(h) ==
    /\ ph[h].pc = "idle"
    /\ \E r \in pwork :
          /\ pwork' = pwork \ {r}
          /\ ph' = [ph EXCEPT ![h] =
                       [pc |-> "get", id |-> r.id,
                        obj |-> [from |-> r.body.from, channel |-> r.body.channel,
                                 message |-> r.body.message, ts |-> now]]]
    /\ UNCHANGED <<srv, proxyVars, now, messages, recent_keys, plog, appended, nreq, bc, trackerVars>>

\* the body of a request: a JSON object ("object", the default), a JSON value
\* that is not an object ("array"), or text that json.loads rejects ("text")
BodyForm(r) == IF "form" \in DOMAIN r THEN r.form ELSE "object"

\* {**obj, 'ts': t}
Stamped(obj, t) == [k \in DOMAIN obj \cup {"ts"} |-> IF k = "ts" THEN t ELSE obj[k]]

\* Bodies of any kind POSTed to /p2p/receive
AnyBodies ==
    { [obj |-> [from |-> Alice, channel |-> "team", message |-> "hi"]],
      [obj |-> [message |-> "hi"]],
      [form |-> "text", text |-> "hi"],
      [form |-> "array"],
      [obj |-> [from |-> Alice, channel |-> "a|b", message |-> "c"]],
      [obj |-> [from |-> Alice, channel |-> "a", message |-> "b|c"]],
      [obj |-> [from |-> [value |-> "alice"], message |-> "hi"]],
      [obj |-> [from |-> [ip |-> "10.0.0.1"], message |-> "hi"]] }

\* try: obj = json.loads(content) except: obj = {'raw': content}
Parsed(b) == IF BodyForm(b) = "text" THEN [raw |-> b.text] ELSE b.obj

\* POST /p2p/receive with any body: parse or wrap, now_ts = time.time(),
\* obj['ts'] = now_ts, key.  The item assignment raises TypeError when the
\* body parsed to something that is not a dict, which the except of line 144
\* catches.
PeerRecvAny(h) ==
    /\ ph[h].pc = "idle"
    /\ nreq < MaxPeerReq
    /\ \E b \in AnyBodies :
          ph' = [ph EXCEPT ![h] =
                    IF BodyForm(b) = "array"
                    THEN [pc |-> "failed", id |-> nreq + 1, ts |-> now]
                    ELSE [pc |-> "get", id |-> nreq + 1, obj |-> Stamped(Parsed(b), now)]]
    /\ nreq' = nreq + 1
    /\ UNCHANGED <<srv, proxyVars, now, messages, recent_keys, plog, appended, pwork, bc, trackerVars>>

\* except Exception as e: print(...); the handler then goes on to answer
\* {'status': 'ok'}; nothing was recorded or queued
PeerRecvFailed(h) ==
    /\ ph[h].pc = "failed"
    /\ plog' = Append(plog, [kind |-> "receive", id |-> ph[h].id,
                             key |-> "", ts |-> ph[h].ts, status |-> "ok"])
    /\ ph' = [ph EXCEPT ![h] = IdlePeerThread]
    /\ UNCHANGED <<srv, proxyVars, now, messages, recent_keys, appended, nreq, pwork, bc, trackerVars>>

\* the peer has answered request id
PeerAnswered(id) == \E i \in 1..Len(plog) : plog[i].id = id

----------------------------------------------------------------------------
(* Peer: GET /peer-inbox *)

\* a client has issued a broadcast to a channel: a /broadcast-peer to the
\* tracker, or a Peer.broadcast, which begins with its /get-list
IsBroadcast(r) ==
    \/ r.route = "broadcast-peer" /\ r.channel # "private"
    \/ r.route = "get-list" /\ "sender" \in DOMAIN r
BroadcastIssued == \A r \in work : ~IsBroadcast(r)

\* a broadcast to a channel has returned to its caller: the tracker has
\* answered a relayed /broadcast-peer, or Peer.broadcast has returned
BroadcastDone ==
    \/ bc.pc = "done"
    \/ \E i \in 1..Len(tlog) :
          tlog[i].route = "broadcast-peer" /\ tlog[i].req.channel # "private"

\* out = self.messages.copy()
PeerDrainCopy(h) ==
    /\ ph[h].pc = "idle"
    /\ nreq < MaxPeerReq
    /\ ph' = [ph EXCEPT ![h] = [pc |-> "clear", id |-> nreq + 1, out |-> messages,
                                late |-> BroadcastDone]]
    /\ nreq' = nreq + 1
    /\ UNCHANGED <<srv, proxyVars, now, messages, recent_keys, plog, appended, pwork, bc, trackerVars>>

\* the mutant below sends the copy and leaves the inbox as it is
PeerDrainKeep(h) ==
    /\ ph[h].pc = "clear"
    /\ plog' = Append(plog, [kind |-> "drain", id |-> ph[h].id, out |-> ph[h].out,
                             late |-> ph[h].late, early |-> ~BroadcastIssued])
    /\ ph' = [ph EXCEPT ![h] = IdlePeerThread]
    /\ UNCHANGED <<srv, proxyVars, now, messages, recent_keys, appended, nreq, pwork, bc, trackerVars>>

\* self.messages.clear(), then the copy is sent as the response body
PeerDrainClear(h) ==
    /\ ph[h].pc = "clear"
    /\ messages' = <<>>
    /\ plog' = Append(plog, [kind |-> "drain", id |-> ph[h].id, out |-> ph[h].out,
                             late |-> ph[h].late, early |-> ~BroadcastIssued])
    /\ ph' = [ph EXCEPT ![h] = IdlePeerThread]
    /\ UNCHANGED <<srv, proxyVars, now, recent_keys, appended, nreq, pwork, bc, trackerVars>>

----------------------------------------------------------------------------
(* Tracker: data *)

IdleThread == [pc |-> "idle"]

\* _peer_id(info) = f"{info['ip']}:{info['port']}"
PeerId(info) == info.ip \o ":" \o ToString(info.port)

\* the orders in which a set may be iterated
Orderings(S) ==
    {f \in [1..Cardinality(S) -> S] : \A i, j \in 1..Cardinality(S) : i # j => f[i] # f[j]}

\* CHANNELS.get(channel, {'peers': set(), 'messages': []})
ChannelGet(C, channel) ==
    IF channel \in DOMAIN C THEN C[channel] ELSE [peers |-> {}, messages |-> <<>>]

\* [PEERS[p] for p in ch['peers'] if p in PEERS], as a set
MemberRecords(P, members) == {P[p] : p \in members \cap DOMAIN P}

\* PEERS.setdefault(pid, rec): the mutant below keeps the first registration
UpsertKeepFirst(P, pid, rec) ==
    IF pid \in DOMAIN P THEN P ELSE [k \in DOMAIN P \cup {pid} |-> IF k = pid THEN rec ELSE P[k]]

\* PEERS = {pid: rec}: the mutant below forgets every other peer
UpsertAlone(P, pid, rec) == [k \in {pid} |-> rec]

\* PEERS[pid] = rec
Upsert(P, pid, rec) ==
    [k \in DOMAIN P \cup {pid} |-> IF k = pid THEN rec ELSE P[k]]

\* CHANNELS[channel] = {'peers': {pid}, 'messages': []}: the mutant below
\* starts the channel afresh on every join
JoinAfresh(C, channel, pid) ==
    [c \in DOMAIN C \cup {channel} |->
        IF c = channel THEN [peers |-> {pid}, messages |-> <<>>] ELSE C[c]]

\* CHANNELS.setdefault(channel, {...}); CHANNELS[channel]['peers'].add(pid)
Join(C, channel, pid) ==
    [c \in DOMAIN C \cup {channel} |->
        IF c = channel
        THEN [peers |-> ChannelGet(C, channel).peers \cup {pid},
              messages |-> ChannelGet(C, channel).messages]
        ELSE C[c]]

\* the mutant below also enrols a peer nobody asked for
PublishWithGuest(C, channel, entry, pid) ==
    [c \in DOMAIN C \cup {channel} |->
        IF c = channel
        THEN [peers |-> ChannelGet(C, channel).peers \cup {pid, "0.0.0.0:0"},
              messages |-> Append(ChannelGet(C, channel).messages, entry)]
        ELSE C[c]]

\* the mutant below keeps only the sender as a member
PublishOnlySender(C, channel, entry, pid) ==
    [c \in DOMAIN C \cup {channel} |->
        IF c = channel
        THEN [peers |-> {pid},
              messages |-> Append(ChannelGet(C, channel).messages, entry)]
        ELSE C[c]]

\* the mutant below also creates the channel "general" on every broadcast
PublishAndGeneral(C, channel, entry, pid) ==
    [c \in DOMAIN C \cup {channel, "general"} |->
        IF c = channel
        THEN [peers |-> ChannelGet(C, channel).peers \cup {pid},
              messages |-> Append(ChannelGet(C, channel).messages, entry)]
        ELSE ChannelGet(C, c)]

\* the mutant below puts the entry in front: ch['messages'].insert(0, entry)
PublishInFront(C, channel, entry, pid) ==
    [c \in DOMAIN C \cup {channel} |->
        IF c = channel
        THEN [peers |-> ChannelGet(C, channel).peers \cup {pid},
              messages |-> <<entry>> \o ChannelGet(C, channel).messages]
        ELSE C[c]]

\* ch = CHANNELS.setdefault(channel, {...}); ch['messages'].append(entry);
\* ch['peers'].add(pid)
Publish(C, channel, entry, pid) ==
    [c \in DOMAIN C \cup {channel} |->
        IF c = channel
        THEN [peers |-> ChannelGet(C, channel).peers \cup {pid},
              messages |-> Append(ChannelGet(C, channel).messages, entry)]
        ELSE C[c]]

\* the mutant below stores and relays whatever the channel is called
NothingReserved(channel) == FALSE

\* if channel == 'private'
IsPrivate(channel) == channel = "private"

\* the mutant below relays to the sender too
ExcludeNobody(pid, exclude_pid) == FALSE

\* if exclude_pid and pid == exclude_pid: continue
Excluded(pid, exclude_pid) == exclude_pid # "" /\ pid = exclude_pid

\* the mutant below reports only the deliveries that went through
ForwardOnlySuccess(results, pid, reached) ==
    IF reached THEN Append(results, [peer |-> pid, ok |-> TRUE]) ELSE results

\* results.append({'peer': pid, 'ok': True}) after the send, or
\* results.append({'peer': pid, 'ok': False, 'error': str(e)}) in the except
ForwardResult(results, pid, reached) ==
    IF reached
    THEN Append(results, [peer |-> pid, ok |-> TRUE])
    ELSE Append(results, [peer |-> pid, ok |-> FALSE, error |-> "connect failed"])

\* _peer_id(obj) returns: obj is a dict that has 'ip' and 'port'
HasIdentity(r) == BodyForm(r) = "object" /\ {"ip", "port"} \subseteq DOMAIN r.obj

\* what a handler thread holds once the request is read, parsed and
\* validated, on its way to the critical section (or to its 400 answer)
Dispatch(r, t) ==
    CASE r.route = "submit-info" ->
            IF BodyForm(r) = "text"
            THEN [pc |-> "reject", req |-> r, error |-> "invalid json"]
            ELSE [pc |-> "acquire", req |-> r]
      [] r.route = "connect-peer" ->
            IF "to" \notin DOMAIN r
            THEN [pc |-> "reject", req |-> r, error |-> "missing to"]
            ELSE [pc |-> "acquire", req |-> r, pid |-> PeerId(r.to)]
      [] r.route = "get-list" -> [pc |-> "acquire", req |-> r]
      [] r.route = "add-list" -> [pc |-> "acquire", req |-> r, pid |-> PeerId(r.peer)]
      [] r.route = "broadcast-peer" ->
            [pc |-> "acquire", req |-> r, pid |-> PeerId(r.from),
             entry |-> [from |-> r.from, message |-> r.message, ts |-> t]]

Route(t) == IF t.pc = "idle" THEN "" ELSE t.req.route

\* the client has read the responses to the requests ids
AllAnswered(ids) == \A a \in ids : \E i \in 1..Len(tlog) : tlog[i].id = a

----------------------------------------------------------------------------
(* Tracker: handle_http *)

\* A client that has the responses it waited for connects and sends request
\* r; run_tracker accepts and starts handle_http on a thread, which reads the
\* request and goes as far as the `with LOCK:` of its route
TAccept(h) ==
    /\ th[h].pc = "idle"
    /\ budget > 0
    /\ \E r \in work :
          /\ AllAnswered(r.after)
          /\ work' = work \ {r}
          /\ th' = [th EXCEPT ![h] = Dispatch(r, now)]
    /\ budget' = budget - 1
    /\ UNCHANGED <<srv, proxyVars, now, peerVars, PEERS, CHANNELS, LOCK, tlog, reg>>

\* with LOCK: blocks until the lock is free
TAcquire(h) ==
    /\ th[h].pc = "acquire"
    /\ LOCK = 0
    /\ LOCK' = h
    /\ th' = [th EXCEPT ![h].pc = "critical"]
    /\ UNCHANGED <<srv, proxyVars, now, peerVars, PEERS, CHANNELS, tlog, work, budget, reg>>

\* POST /submit-info, under the lock: PEERS[pid] = {**obj, 'ts': time.time()}
TSubmitCritical(h) ==
    /\ th[h].pc = "critical" /\ Route(th[h]) = "submit-info" /\ LOCK = h
    /\ HasIdentity(th[h].req)
    /\ LET obj == th[h].req.obj
           pid == PeerId(obj)
       IN /\ PEERS' = Upsert(PEERS, pid, Stamped(obj, now))
          /\ th' = [th EXCEPT ![h] = [pc |-> "count", req |-> th[h].req, pid |-> pid,
                                      existed |-> pid \in DOMAIN PEERS]]
          /\ reg' = [reg EXCEPT !.fresh = reg.fresh \/ pid \notin DOMAIN PEERS]
    /\ LOCK' = 0
    /\ UNCHANGED <<srv, proxyVars, now, peerVars, CHANNELS, tlog, work, budget>>

\* POST /submit-info, after the lock: resp = {'status':'ok','peers_count': len(PEERS)}
TSubmitRespond(h) ==
    /\ th[h].pc = "count"
    /\ tlog' = Append(tlog, [id |-> th[h].req.id, route |-> "submit-info",
                             req |-> th[h].req, code |-> 200,
                             resp |-> [status |-> "ok",
                                       peers_count |-> Cardinality(DOMAIN PEERS)],
                             pid |-> th[h].pid, existed |-> th[h].existed])
    /\ reg' = [last |-> Cardinality(DOMAIN PEERS), fresh |-> FALSE]
    /\ th' = [th EXCEPT ![h] = IdleThread]
    /\ UNCHANGED <<srv, proxyVars, now, peerVars, PEERS, CHANNELS, LOCK, work, budget>>

\* GET /get-list, under the lock: the peers are copied into a new list, the
\* channel's message list is put into resp as it is (the list object itself)
TListCritical(h) ==
    /\ th[h].pc = "critical" /\ Route(th[h]) = "get-list" /\ LOCK = h
    /\ LET channel == th[h].req.channel
           ch == ChannelGet(CHANNELS, channel)
           peers == IF channel # Null THEN MemberRecords(PEERS, ch.peers)
                    ELSE {PEERS[p] : p \in DOMAIN PEERS}
       IN th' = [th EXCEPT ![h] =
                    [pc |-> "serialize", req |-> th[h].req, peers |-> peers,
                     listof |-> IF channel # Null /\ channel \in DOMAIN CHANNELS
                                THEN channel ELSE Null,
                     snap |-> [peers |-> peers,
                               messages |-> IF channel # Null THEN ch.messages ELSE <<>>]]]
    /\ LOCK' = 0
    /\ UNCHANGED <<srv, proxyVars, now, peerVars, PEERS, CHANNELS, tlog, work, budget, reg>>

\* GET /get-list, after the lock: build_response runs json.dumps(resp), which
\* walks the message list as it is now
TListRespond(h) ==
    /\ th[h].pc = "serialize"
    /\ tlog' = Append(tlog, [id |-> th[h].req.id, route |-> "get-list",
                             req |-> th[h].req, code |-> 200,
                             resp |-> [peers |-> th[h].peers,
                                       messages |-> IF th[h].listof = Null THEN <<>>
                                                    ELSE CHANNELS[th[h].listof].messages],
                             snap |-> th[h].snap])
    /\ th' = [th EXCEPT ![h] = IdleThread]
    /\ UNCHANGED <<srv, proxyVars, now, peerVars, PEERS, CHANNELS, LOCK, work, budget, reg>>

\* POST /add-list, under the lock
TAddCritical(h) ==
    /\ th[h].pc = "critical" /\ Route(th[h]) = "add-list" /\ LOCK = h
    /\ CHANNELS' = Join(CHANNELS, th[h].req.channel, th[h].pid)
    /\ th' = [th EXCEPT ![h] =
                 [pc |-> "respond", req |-> th[h].req, pid |-> th[h].pid,
                  was_member |-> th[h].pid \in ChannelGet(CHANNELS, th[h].req.channel).peers]]
    /\ LOCK' = 0
    /\ UNCHANGED <<srv, proxyVars, now, peerVars, PEERS, tlog, work, budget, reg>>

\* text that sys.stdout cannot encode: a lone surrogate, which json.loads
\* makes of the escape \ud800 and the utf-8 codec refuses
Unencodable == {"<U+D800>"}

\* print(text) raises UnicodeEncodeError
PrintRaises(text) == text \in Unencodable

\* POST /add-list, after the lock: print(f"... added {pid} to {channel}")
\* raises; the exception goes to handle_http's except
TAddPrintRaises(h) ==
    /\ th[h].pc = "respond" /\ Route(th[h]) = "add-list"
    /\ PrintRaises(th[h].req.channel)
    /\ th' = [th EXCEPT ![h] = [pc |-> "fault", req |-> th[h].req,
                                error |-> "UnicodeEncodeError"]]
    /\ UNCHANGED <<srv, proxyVars, now, peerVars, PEERS, CHANNELS, LOCK, tlog, work, budget, reg>>

\* POST /add-list, after the lock: the print, then {'status':'ok'}
TAddRespond(h) ==
    /\ th[h].pc = "respond" /\ Route(th[h]) = "add-list"
    /\ ~PrintRaises(th[h].req.channel)
    /\ tlog' = Append(tlog, [id |-> th[h].req.id, route |-> "add-list",
                             req |-> th[h].req, code |-> 200,
                             resp |-> [status |-> "ok"],
                             pid |-> th[h].pid, was_member |-> th[h].was_member])
    /\ th' = [th EXCEPT ![h] = IdleThread]
    /\ UNCHANGED <<srv, proxyVars, now, peerVars, PEERS, CHANNELS, LOCK, work, budget, reg>>

\* the mutant below calls _forward_to_peers inside the with block: the
\* handler goes on to the fan-out with the lock still held
TBroadcastHoldLock(h) ==
    /\ th[h].pc = "critical" /\ Route(th[h]) = "broadcast-peer" /\ LOCK = h
    /\ LET channel == th[h].req.channel
           after == Publish(CHANNELS, channel, th[h].entry, th[h].pid)
       IN /\ ~IsPrivate(channel)
          /\ CHANNELS' = after
          /\ \E peers \in Orderings(MemberRecords(PEERS, after[channel].peers)) :
                th' = [th EXCEPT ![h] =
                          [pc |-> "forward", req |-> th[h].req, pid |-> th[h].pid,
                           entry |-> th[h].entry, peers |-> peers,
                           members |-> after[channel].peers,
                           known |-> DOMAIN PEERS,
                           i |-> 1, sent |-> 0, results |-> <<>>, attempts |-> <<>>]]
    /\ LOCK' = h
    /\ UNCHANGED <<srv, proxyVars, now, peerVars, PEERS, tlog, work, budget, reg>>

\* POST /broadcast-peer, under the lock.  Nothing outside the lock reads the
\* member set, so the append and the add are one step.
TBroadcastCritical(h) ==
    /\ th[h].pc = "critical" /\ Route(th[h]) = "broadcast-peer" /\ LOCK = h
    /\ LET channel == th[h].req.channel
           after == Publish(CHANNELS, channel, th[h].entry, th[h].pid)
       IN IF IsPrivate(channel)
          THEN /\ CHANNELS' = CHANNELS
               /\ th' = [th EXCEPT ![h] =
                            [pc |-> "forward", req |-> th[h].req, pid |-> th[h].pid,
                             entry |-> th[h].entry, peers |-> <<>>, members |-> {},
                             known |-> DOMAIN PEERS,
                             i |-> 1, sent |-> 0, results |-> <<>>, attempts |-> <<>>]]
          ELSE /\ CHANNELS' = after
               /\ \E peers \in Orderings(MemberRecords(PEERS, after[channel].peers)) :
                     th' = [th EXCEPT ![h] =
                               [pc |-> "forward", req |-> th[h].req, pid |-> th[h].pid,
                                entry |-> th[h].entry, peers |-> peers,
                                members |-> after[channel].peers,
                                known |-> DOMAIN PEERS,
                                i |-> 1, sent |-> 0, results |-> <<>>, attempts |-> <<>>]]
    /\ LOCK' = 0
    /\ UNCHANGED <<srv, proxyVars, now, peerVars, PEERS, tlog, work, budget, reg>>

\* _forward_to_peers: the sender's own record is passed over
TForwardSkip(h) ==
    /\ th[h].pc = "forward"
    /\ th[h].i <= Len(th[h].peers)
    /\ Excluded(PeerId(th[h].peers[th[h].i]), th[h].pid)
    /\ th' = [th EXCEPT ![h].i = th[h].i + 1]
    /\ UNCHANGED <<srv, proxyVars, now, peerVars, PEERS, CHANNELS, LOCK, tlog, work, budget, reg>>

\* _forward_to_peers: one delivery attempt; the peer is reached, or the
\* connect / send fails or times out
TForwardAttempt(h) ==
    /\ th[h].pc = "forward"
    /\ th[h].i <= Len(th[h].peers)
    /\ ~Excluded(PeerId(th[h].peers[th[h].i]), th[h].pid)
    /\ \E reached \in BOOLEAN :
          LET pid == PeerId(th[h].peers[th[h].i])
          IN th' = [th EXCEPT ![h].i = th[h].i + 1,
                              ![h].results = ForwardResult(th[h].results, pid, reached),
                              ![h].attempts = Append(th[h].attempts,
                                                     [peer |-> pid, reached |-> reached])]
    /\ UNCHANGED <<srv, proxyVars, now, peerVars, PEERS, CHANNELS, LOCK, tlog, work, budget, reg>>

\* POST /broadcast-peer, after the fan-out:
\* {'status':'ok','peers': peers, 'forwarded': forward_results}
TBroadcastRespond(h) ==
    /\ th[h].pc = "forward"
    /\ th[h].i > Len(th[h].peers)
    /\ tlog' = Append(tlog, [id |-> th[h].req.id, route |-> "broadcast-peer",
                             req |-> th[h].req, code |-> 200,
                             resp |-> [status |-> "ok", peers |-> th[h].peers,
                                       forwarded |-> th[h].results],
                             pid |-> th[h].pid, entry |-> th[h].entry,
                             members |-> th[h].members, known |-> th[h].known,
                             attempts |-> th[h].attempts])
    /\ th' = [th EXCEPT ![h] = IdleThread]
    /\ UNCHANGED <<srv, proxyVars, now, peerVars, PEERS, CHANNELS, LOCK, work, budget, reg>>

\* the mutant below takes the lock with LOCK.acquire() and has no finally:
\* the exception leaves the critical section with the lock held
TSubmitRaiseHolding(h) ==
    /\ th[h].pc = "critical" /\ Route(th[h]) = "submit-info" /\ LOCK = h
    /\ ~HasIdentity(th[h].req)
    /\ th' = [th EXCEPT ![h] =
                 [pc |-> "fault", req |-> th[h].req,
                  error |-> IF BodyForm(th[h].req) = "object" THEN "KeyError"
                            ELSE "TypeError"]]
    /\ LOCK' = h
    /\ UNCHANGED <<srv, proxyVars, now, peerVars, PEERS, CHANNELS, tlog, work, budget, reg>>

\* POST /submit-info, under the lock: _peer_id(obj) raises (KeyError when
\* 'ip' or 'port' is missing, TypeError when obj is not a dict); the with
\* block releases the lock and the exception goes to handle_http's except
TSubmitRaise(h) ==
    /\ th[h].pc = "critical" /\ Route(th[h]) = "submit-info" /\ LOCK = h
    /\ ~HasIdentity(th[h].req)
    /\ th' = [th EXCEPT ![h] =
                 [pc |-> "fault", req |-> th[h].req,
                  error |-> IF BodyForm(th[h].req) = "object" THEN "KeyError"
                            ELSE "TypeError"]]
    /\ LOCK' = 0
    /\ UNCHANGED <<srv, proxyVars, now, peerVars, PEERS, CHANNELS, tlog, work, budget, reg>>

\* build_response(400, {'error': ...}) for a body that is not JSON or lacks
\* a field the route checks for
TReject(h) ==
    /\ th[h].pc = "reject"
    /\ tlog' = Append(tlog, [id |-> th[h].req.id, route |-> th[h].req.route,
                             req |-> th[h].req, code |-> 400,
                             resp |-> [error |-> th[h].error]])
    /\ th' = [th EXCEPT ![h] = IdleThread]
    /\ UNCHANGED <<srv, proxyVars, now, peerVars, PEERS, CHANNELS, LOCK, work, budget, reg>>

\* except Exception as e: build_response(500, {'error': str(e)})
TFault(h) ==
    /\ th[h].pc = "fault"
    /\ tlog' = Append(tlog, [id |-> th[h].req.id, route |-> th[h].req.route,
                             req |-> th[h].req, code |-> 500,
                             resp |-> [error |-> th[h].error]])
    /\ th' = [th EXCEPT ![h] = IdleThread]
    /\ UNCHANGED <<srv, proxyVars, now, peerVars, PEERS, CHANNELS, LOCK, work, budget, reg>>

\* the lookup of the mutant below finds nobody
LookupNobody(P, pid) == <<>>

\* PEERS.get(pid): <<record>> when present, <<>> for None
Lookup(P, pid) == IF pid \in DOMAIN P THEN <<P[pid]>> ELSE <<>>

\* POST /connect-peer, under the lock: info = PEERS.get(pid)
TConnectCritical(h) ==
    /\ th[h].pc = "critical" /\ Route(th[h]) = "connect-peer" /\ LOCK = h
    /\ th' = [th EXCEPT ![h] =
                 [pc |-> "found", req |-> th[h].req, pid |-> th[h].pid,
                  info |-> Lookup(PEERS, th[h].pid)]]
    /\ LOCK' = 0
    /\ UNCHANGED <<srv, proxyVars, now, peerVars, PEERS, CHANNELS, tlog, work, budget, reg>>

\* POST /connect-peer, after the lock: {'peer': info}, or 404 'peer not found'
TConnectRespond(h) ==
    /\ th[h].pc = "found"
    /\ tlog' = Append(tlog,
                  IF th[h].info = <<>>
                  THEN [id |-> th[h].req.id, route |-> "connect-peer",
                        req |-> th[h].req, code |-> 404,
                        resp |-> [error |-> "peer not found"], pid |-> th[h].pid]
                  ELSE [id |-> th[h].req.id, route |-> "connect-peer",
                        req |-> th[h].req, code |-> 200,
                        resp |-> [peer |-> th[h].info[1]], pid |-> th[h].pid])
    /\ th' = [th EXCEPT ![h] = IdleThread]
    /\ UNCHANGED <<srv, proxyVars, now, peerVars, PEERS, CHANNELS, LOCK, work, budget, reg>>

\* the clock, while the tracker is observed
TTick ==
    /\ now < MaxTrackerTime
    /\ now' = now + 1
    /\ UNCHANGED <<srv, proxyVars, peerVars, trackerVars>>

----------------------------------------------------------------------------
(* Deliveries to a listening peer, and Peer.broadcast *)

\* _forward_to_peers: connect to the peer and send it the entry (the entry
\* has no channel; the peer overwrites its ts)
TForwardDeliver(h) ==
    /\ th[h].pc = "forward"
    /\ th[h].i <= Len(th[h].peers)
    /\ ~Excluded(PeerId(th[h].peers[th[h].i]), th[h].pid)
    /\ pwork' = pwork \cup {[id |-> nreq + 1,
                             body |-> [from |-> th[h].entry.from, channel |-> Null,
                                       message |-> th[h].entry.message]]}
    /\ nreq' = nreq + 1
    /\ th' = [th EXCEPT ![h].pc = "await", ![h].sent = nreq + 1]
    /\ UNCHANGED <<srv, proxyVars, now, messages, recent_keys, ph, plog, appended, bc,
                   PEERS, CHANNELS, LOCK, tlog, work, budget, reg>>

\* _forward_to_peers: s.recv returns the peer's answer; the result is ok
TForwardAwait(h) ==
    /\ th[h].pc = "await"
    /\ PeerAnswered(th[h].sent)
    /\ LET pid == PeerId(th[h].peers[th[h].i])
       IN th' = [th EXCEPT ![h].pc = "forward",
                           ![h].i = th[h].i + 1,
                           ![h].results = ForwardResult(th[h].results, pid, TRUE),
                           ![h].attempts = Append(th[h].attempts,
                                                  [peer |-> pid, reached |-> TRUE])]
    /\ UNCHANGED <<srv, proxyVars, now, peerVars, PEERS, CHANNELS, LOCK, tlog, work, budget, reg>>

\* _forward_to_peers: the peer accepted the connection but does not answer;
\* s.recv times out after 2 s, the exception is passed over and the result
\* is ok
TForwardTimeout(h) ==
    /\ th[h].pc = "await"
    /\ LET pid == PeerId(th[h].peers[th[h].i])
       IN th' = [th EXCEPT ![h].pc = "forward",
                           ![h].i = th[h].i + 1,
                           ![h].results = ForwardResult(th[h].results, pid, TRUE),
                           ![h].attempts = Append(th[h].attempts,
                                                  [peer |-> pid, reached |-> TRUE])]
    /\ UNCHANGED <<srv, proxyVars, now, peerVars, PEERS, CHANNELS, LOCK, tlog, work, budget, reg>>

\* the mutant below leaves nobody out
NotEvenSelf(p, me) == TRUE

\* not (p.get('ip') == my_ip and int(p.get('port')) == self.port)
NotSelf(p, me) == ~(p.ip = me.ip /\ p.port = me.port)

\* Peer.broadcast: get_peers_from_tracker has the tracker's answer to its
\* GET /get-list?channel=...; the peer's own record is left out
BStart ==
    /\ bc.pc = "idle"
    /\ \E i \in 1..Len(tlog) :
          /\ tlog[i].route = "get-list"
          /\ "sender" \in DOMAIN tlog[i].req
          /\ \E peers \in Orderings(tlog[i].resp.peers) :
                LET me == tlog[i].req.sender
                    Other(p) == NotSelf(p, me)
                IN bc' = [pc |-> IF SelectSeq(peers, Other) = <<>> THEN "done" ELSE "send",
                          me |-> me, channel |-> tlog[i].req.channel,
                          message |-> tlog[i].req.message,
                          targets |-> SelectSeq(peers, Other), i |-> 1, sent |-> 0,
                          tried |-> <<>>]
    /\ UNCHANGED <<srv, proxyVars, now, messages, recent_keys, ph, plog, appended, nreq, pwork, trackerVars>>

\* Peer.broadcast: connect to the next target and send it the payload
BDeliver ==
    /\ bc.pc = "send"
    /\ bc.i <= Len(bc.targets)
    /\ pwork' = pwork \cup {[id |-> nreq + 1,
                             body |-> [from |-> bc.me, channel |-> bc.channel,
                                       message |-> bc.message]]}
    /\ nreq' = nreq + 1
    /\ bc' = [bc EXCEPT !.pc = "await", !.sent = nreq + 1]
    /\ UNCHANGED <<srv, proxyVars, now, messages, recent_keys, ph, plog, appended, trackerVars>>

\* Peer.broadcast after the attempt at target p: the success line and every
\* except clause print p['name'].  With a name the loop goes on (and returns
\* after the last target); without one the KeyError of the success line is
\* caught by `except Exception`, whose own print raises it again, out of
\* broadcast
AfterAttempt(p, i, n) ==
    IF "name" \notin DOMAIN p THEN "raised"
    ELSE IF i + 1 > n THEN "done" ELSE "send"

\* Peer.broadcast: s.recv returns the target's answer
BAwait ==
    /\ bc.pc = "await"
    /\ PeerAnswered(bc.sent)
    /\ bc' = [bc EXCEPT !.pc = AfterAttempt(bc.targets[bc.i], bc.i, Len(bc.targets)),
                        !.i = bc.i + 1,
                        !.tried = Append(bc.tried, [peer |-> PeerId(bc.targets[bc.i]),
                                                    reached |-> TRUE])]
    /\ UNCHANGED <<srv, proxyVars, now, messages, recent_keys, ph, plog, appended, nreq, pwork, trackerVars>>

\* Peer.broadcast: one delivery attempt at a target that is some other
\* process: it is reached and answers, or the connect is refused or times out
BAttempt ==
    /\ bc.pc = "send"
    /\ bc.i <= Len(bc.targets)
    /\ \E reached \in BOOLEAN :
          bc' = [bc EXCEPT !.pc = AfterAttempt(bc.targets[bc.i], bc.i, Len(bc.targets)),
                           !.i = bc.i + 1,
                           !.tried = Append(bc.tried, [peer |-> PeerId(bc.targets[bc.i]),
                                                       reached |-> reached])]
    /\ UNCHANGED <<srv, proxyVars, now, messages, recent_keys, ph, plog, appended, nreq, pwork, trackerVars>>

----------------------------------------------------------------------------
(* Tracker: handle_http from the accepted connection to the route *)

\* conn.recv(8192)
ChunkLimit == 8192

\* the method each route is served for
RouteMethod ==
    [route \in {"submit-info", "get-list", "add-list", "broadcast-peer", "connect-peer"} |->
        IF route = "get-list" THEN "GET" ELSE "POST"]

\* urlsplit raises ValueError("Invalid IPv6 URL") when the network location
\* of the target has one of '[' and ']' without the other
Has(c, netloc) == \E k \in 1..Len(netloc) : netloc[k] = c
UrlParseRaises(netloc) ==
    \/ Has("[", netloc) /\ ~Has("]", netloc)
    \/ Has("]", netloc) /\ ~Has("[", netloc)

\* obj with field k set to v
WithField(obj, k, v) == [f \in DOMAIN obj \cup {k} |-> IF f = k THEN v ELSE obj[f]]

\* the request as the handler reads it out of the first `got` chunks: all
\* of it; or the head and a part of the body, which json.loads rejects; or
\* the head alone, whose empty body is read as '{}'
Seen(r, got) ==
    CASE r.chunks[got].upto = "all" -> r
      [] r.chunks[got].upto = "part" -> WithField(r, "form", "text")
      [] r.chunks[got].upto = "head" -> WithField(r, "obj", <<>>)

\* the connection was closed and the client got no response
Closed(r) == [id |-> r.id, route |-> r.route, req |-> r, code |-> 0, resp |-> <<>>]

\* run_tracker accepts a connection and starts handle_http on a thread,
\* which sets the 0.5 s timeout and enters the read loop
TConnAccept(h) ==
    /\ th[h].pc = "idle"
    /\ budget > 0
    /\ \E r \in work :
          /\ AllAnswered(r.after)
          /\ work' = work \ {r}
          /\ th' = [th EXCEPT ![h] = [pc |-> "recv", req |-> r, got |-> 0]]
    /\ budget' = budget - 1
    /\ UNCHANGED <<srv, proxyVars, now, peerVars, PEERS, CHANNELS, LOCK, tlog, reg>>

\* chunk = conn.recv(8192) returns the next chunk the client sent;
\* raw += chunk; if len(chunk) < 8192: break
TRecv(h) ==
    /\ th[h].pc = "recv"
    /\ th[h].got < Len(th[h].req.chunks)
    /\ th' = [th EXCEPT ![h].got = th[h].got + 1,
                        ![h].pc = IF th[h].req.chunks[th[h].got + 1].size < ChunkLimit
                                  THEN "parse" ELSE "recv"]
    /\ UNCHANGED <<srv, proxyVars, now, peerVars, PEERS, CHANNELS, LOCK, tlog, work, budget, reg>>

\* the client has nothing more to send: conn.recv times out after 0.5 s
\* (or returns b'' when the client has shut the connection down) and the
\* handler proceeds with what it has
TRecvIdle(h) ==
    /\ th[h].pc = "recv"
    /\ th[h].got = Len(th[h].req.chunks)
    /\ th' = [th EXCEPT ![h].pc = "parse"]
    /\ UNCHANGED <<srv, proxyVars, now, peerVars, PEERS, CHANNELS, LOCK, tlog, work, budget, reg>>

\* if not raw: return; if len(parts) < 2: return; urlparse(path); the
\* OPTIONS short-circuit; then the route for the method and the path, read
\* as far as its with LOCK, or the 404 at the end
TParse(h) ==
    /\ th[h].pc = "parse"
    /\ LET r == th[h].req
       IN IF th[h].got = 0 \/ r.line = "short"
          THEN /\ tlog' = Append(tlog, Closed(r))
               /\ th' = [th EXCEPT ![h] = IdleThread]
          ELSE /\ tlog' = tlog
               /\ th' = [th EXCEPT ![h] =
                            IF UrlParseRaises(r.netloc)
                            THEN [pc |-> "fault", req |-> r, error |-> "Invalid IPv6 URL"]
                            ELSE IF r.method = "OPTIONS"
                            THEN [pc |-> "options", req |-> r]
                            ELSE IF r.route \in DOMAIN RouteMethod /\ RouteMethod[r.route] = r.method
                            THEN Dispatch(Seen(r, th[h].got), now)
                            ELSE [pc |-> "notfound", req |-> r]]
    /\ UNCHANGED <<srv, proxyVars, now, peerVars, PEERS, CHANNELS, LOCK, work, budget, reg>>

\* if method == 'OPTIONS': return conn.sendall(build_response(200, {}))
TOptions(h) ==
    /\ th[h].pc = "options"
    /\ tlog' = Append(tlog, [id |-> th[h].req.id, route |-> th[h].req.route,
                             req |-> th[h].req, code |-> 200, resp |-> <<>>])
    /\ th' = [th EXCEPT ![h] = IdleThread]
    /\ UNCHANGED <<srv, proxyVars, now, peerVars, PEERS, CHANNELS, LOCK, work, budget, reg>>

\* return conn.sendall(build_response(404, {'error':'not found'}))
TNotFound(h) ==
    /\ th[h].pc = "notfound"
    /\ tlog' = Append(tlog, [id |-> th[h].req.id, route |-> th[h].req.route,
                             req |-> th[h].req, code |-> 404,
                             resp |-> [error |-> "not found"]])
    /\ th' = [th EXCEPT ![h] = IdleThread]
    /\ UNCHANGED <<srv, proxyVars, now, peerVars, PEERS, CHANNELS, LOCK, work, budget, reg>>

\* handler h is about to send its response
AboutToSend(h) ==
    \/ th[h].pc \in {"count", "serialize", "respond", "found", "reject", "fault",
                     "options", "notfound"}
    \/ th[h].pc = "forward" /\ th[h].i > Len(th[h].peers)

\* the client has gone: conn.sendall raises, so does the sendall of the 500
\* in the except clause, and finally closes the connection
TSendFails(h) ==
    /\ AboutToSend(h)
    /\ tlog' = Append(tlog, Closed(th[h].req))
    /\ th' = [th EXCEPT ![h] = IdleThread]
    /\ UNCHANGED <<srv, proxyVars, now, peerVars, PEERS, CHANNELS, LOCK, work, budget, reg>>

----------------------------------------------------------------------------
(* Peer: _handle_conn from the accepted connection to the route *)

\* what a client does with its connection to the peer: it sends nothing and
\* keeps the connection open, closes it without sending, sends a one-word
\* request line, a preflight, a delivery, a poll of the inbox, or a request
\* for some other path
PeerConns ==
    {[kind |-> k] : k \in {"silent", "empty", "short", "options", "inbox", "other"}}
        \cup {[kind |-> "receive", body |-> b] : b \in PeerBodies}

\* _run_server accepts a connection and starts _handle_conn on a thread,
\* which calls conn.recv(8192) on the blocking socket
PeerConnAccept(h) ==
    /\ ph[h].pc = "idle"
    /\ nreq < MaxPeerReq
    /\ \E c \in PeerConns : ph' = [ph EXCEPT ![h] = [pc |-> "recv", id |-> nreq + 1, conn |-> c]]
    /\ nreq' = nreq + 1
    /\ UNCHANGED <<srv, proxyVars, now, messages, recent_keys, plog, appended, pwork, bc, trackerVars>>

\* conn.recv returns what the client sent, or b'' when the client closed:
\* if not data: return; if len(parts) < 2: return; the OPTIONS
\* short-circuit; POST /p2p/receive as far as its key; GET /peer-inbox as
\* far as out = self.messages.copy(); or the 404 at the end
PeerConnData(h) ==
    /\ ph[h].pc = "recv"
    /\ ph[h].conn.kind # "silent"
    /\ LET c == ph[h].conn
           id == ph[h].id
       IN IF c.kind \in {"empty", "short"}
          THEN /\ plog' = Append(plog, [kind |-> "closed", id |-> id])
               /\ ph' = [ph EXCEPT ![h] = IdlePeerThread]
          ELSE /\ plog' = plog
               /\ ph' = [ph EXCEPT ![h] =
                            CASE c.kind = "options" -> [pc |-> "options", id |-> id]
                              [] c.kind = "receive" ->
                                    [pc |-> "get", id |-> id,
                                     obj |-> [from |-> c.body.from, channel |-> c.body.channel,
                                              message |-> c.body.message, ts |-> now]]
                              [] c.kind = "inbox" ->
                                    [pc |-> "clear", id |-> id, out |-> messages,
                                     late |-> BroadcastDone]
                              [] c.kind = "other" -> [pc |-> "notfound", id |-> id]]
    /\ UNCHANGED <<srv, proxyVars, now, messages, recent_keys, appended, nreq, pwork, bc, trackerVars>>

\* if method == 'OPTIONS': conn.sendall(hdr) with Content-Length: 0; return
PeerOptions(h) ==
    /\ ph[h].pc = "options"
    /\ plog' = Append(plog, [kind |-> "options", id |-> ph[h].id, code |-> 200])
    /\ ph' = [ph EXCEPT ![h] = IdlePeerThread]
    /\ UNCHANGED <<srv, proxyVars, now, messages, recent_keys, appended, nreq, pwork, bc, trackerVars>>

\* conn.sendall(self._build_response(404, {'error':'not found'}))
PeerNotFound(h) ==
    /\ ph[h].pc = "notfound"
    /\ plog' = Append(plog, [kind |-> "notfound", id |-> ph[h].id, code |-> 404])
    /\ ph' = [ph EXCEPT ![h] = IdlePeerThread]
    /\ UNCHANGED <<srv, proxyVars, now, messages, recent_keys, appended, nreq, pwork, bc, trackerVars>>

----------------------------------------------------------------------------
(* Peer.start: register_to_tracker, add_to_channel *)

\* the mutant below goes back and sends the failed call again
TryAgain(call) == IF call = "submit-info" THEN "new" ELSE "join"

\* except Exception as e: print(...): the call returns, and so does start
OnFailure(call) == "idle"

\* the id of the next request this peer sends to the tracker
NextCall == 10 + Len(plog)

\* the peer's record of a call to the tracker: sent, or failed
Call(kind, route) == [kind |-> kind, id |-> NextCall, route |-> route]

\* Peer.start: t = threading.Thread(target=self._run_server); t.start()
StartServer ==
    /\ bc.pc = "new" /\ srv = "none"
    /\ srv' = "started"
    /\ UNCHANGED <<now, peerVars, trackerVars, proxyVars>>

\* Peer.start goes on to register_to_tracker as soon as t.start() returns
StartGoesOn == srv # "none"

\* _run_server: srv.bind((self.ip, self.port)) succeeds, at once or on the
\* fallback address
ServerBind ==
    /\ srv = "started"
    /\ srv' = "bound"
    /\ UNCHANGED <<now, peerVars, trackerVars, proxyVars>>

\* _run_server: the port is taken; bind raises OSError, the bind to 0.0.0.0
\* raises it again and the thread ends
ServerBindFails ==
    /\ srv = "started"
    /\ srv' = "dead"
    /\ UNCHANGED <<now, peerVars, trackerVars, proxyVars>>

\* _run_server: srv.listen(50)
ServerListen ==
    /\ srv = "bound"
    /\ srv' = "listening"
    /\ UNCHANGED <<now, peerVars, trackerVars, proxyVars>>

\* register_to_tracker: s.connect and s.sendall of POST /submit-info with
\* {ip, port, name}, or the connect is refused and nothing is sent
StartRegister ==
    /\ bc.pc = "new" /\ StartGoesOn
    /\ \E connected \in BOOLEAN :
          IF connected
          THEN /\ work' = work \cup {[id |-> NextCall, after |-> {},
                                       route |-> "submit-info", obj |-> bc.me]}
               /\ plog' = Append(plog, Call("sent", "submit-info"))
               /\ bc' = [pc |-> "registering", me |-> bc.me, awaits |-> NextCall]
          ELSE /\ work' = work
               /\ plog' = Append(plog, Call("failed", "submit-info"))
               /\ bc' = [pc |-> OnFailure("submit-info"), me |-> bc.me]
    /\ UNCHANGED <<srv, proxyVars, now, messages, recent_keys, ph, appended, nreq, pwork,
                   PEERS, CHANNELS, LOCK, th, tlog, budget, reg>>

\* register_to_tracker: s.recv raises (the connection is reset) after the
\* request went out
StartRegisterLost ==
    /\ bc.pc = "registering"
    /\ plog' = Append(plog, Call("failed", "submit-info"))
    /\ bc' = [pc |-> OnFailure("submit-info"), me |-> bc.me]
    /\ UNCHANGED <<srv, proxyVars, now, messages, recent_keys, ph, appended, nreq, pwork, trackerVars>>

\* register_to_tracker: s.recv returns the tracker's answer, whatever it
\* says; add_to_channel('general', reg_ip) is called next
StartRegistered ==
    /\ bc.pc = "registering"
    /\ AllAnswered({bc.awaits})
    /\ bc' = [pc |-> "join", me |-> bc.me]
    /\ UNCHANGED <<srv, proxyVars, now, messages, recent_keys, ph, plog, appended, nreq, pwork, trackerVars>>

\* add_to_channel: s.connect and s.sendall of POST /add-list with
\* {channel: 'general', peer: {ip, port, name}}, or the connect is refused
StartJoin ==
    /\ bc.pc = "join"
    /\ \E connected \in BOOLEAN :
          IF connected
          THEN /\ work' = work \cup {[id |-> NextCall, after |-> {}, route |-> "add-list",
                                       channel |-> "general", peer |-> bc.me]}
               /\ plog' = Append(plog, Call("sent", "add-list"))
               /\ bc' = [pc |-> "joining", me |-> bc.me, awaits |-> NextCall]
          ELSE /\ work' = work
               /\ plog' = Append(plog, Call("failed", "add-list"))
               /\ bc' = [pc |-> OnFailure("add-list"), me |-> bc.me]
    /\ UNCHANGED <<srv, proxyVars, now, messages, recent_keys, ph, appended, nreq, pwork,
                   PEERS, CHANNELS, LOCK, th, tlog, budget, reg>>

\* add_to_channel: s.recv raises after the request went out
StartJoinLost ==
    /\ bc.pc = "joining"
    /\ plog' = Append(plog, Call("failed", "add-list"))
    /\ bc' = [pc |-> OnFailure("add-list"), me |-> bc.me]
    /\ UNCHANGED <<srv, proxyVars, now, messages, recent_keys, ph, appended, nreq, pwork, trackerVars>>

\* add_to_channel: s.recv returns; register_to_tracker and start return
StartJoined ==
    /\ bc.pc = "joining"
    /\ AllAnswered({bc.awaits})
    /\ bc' = [pc |-> "idle", me |-> bc.me]
    /\ UNCHANGED <<srv, proxyVars, now, messages, recent_keys, ph, plog, appended, nreq, pwork, trackerVars>>

\* Peer.broadcast, called once start has returned: get_peers_from_tracker
\* sends GET /get-list?channel=general
BAsk ==
    /\ bc.pc = "idle"
    /\ "asked" \notin DOMAIN bc
    /\ work' = work \cup {[id |-> NextCall, after |-> {}, route |-> "get-list",
                            channel |-> "general", sender |-> bc.me, message |-> "hi"]}
    /\ plog' = Append(plog, Call("sent", "get-list"))
    /\ bc' = [pc |-> "idle", me |-> bc.me, asked |-> TRUE]
    /\ UNCHANGED <<srv, proxyVars, now, messages, recent_keys, ph, appended, nreq, pwork,
                   PEERS, CHANNELS, LOCK, th, tlog, budget, reg>>

----------------------------------------------------------------------------
(* Proxy: handle_client, resolve_routing_policy *)

\* a Host header value "name" or "name:port"; port "" when there is none
Hostname(name, port) == [name |-> name, port |-> port]

Backend1 == [host |-> "10.0.1.1", port |-> 9000]
Backend2 == [host |-> "10.0.1.2", port |-> 9000]

\* routes, as parse_virtual_hosts builds it: host -> (proxy_passes, policy)
Routes ==
    [r \in {Hostname("app.local", ""), Hostname("solo.local", ""), Hostname("first.local", "")} |->
        CASE r.name = "app.local" -> [proxy_map |-> <<Backend1, Backend2>>, policy |-> "round-robin"]
          [] r.name = "solo.local" -> [proxy_map |-> <<Backend1>>, policy |-> "round-robin"]
          [] r.name = "first.local" -> [proxy_map |-> <<Backend1, Backend2>>, policy |-> "ip-hash"]]

\* the Host headers that clients send
Hostnames ==
    { Hostname("app.local", ""), Hostname("app.local", "8080"), Hostname("solo.local", ""),
      Hostname("first.local", ""), Hostname("other.local", "") }

\* routes.get(hostname), then routes.get(hostname.split(':')[0]) when the
\* hostname has a port: <<route_info>>, or <<>> for None
RouteInfo(hostname) ==
    IF hostname \in DOMAIN Routes THEN <<Routes[hostname]>>
    ELSE IF hostname.port # "" /\ Hostname(hostname.name, "") \in DOMAIN Routes
         THEN <<Routes[Hostname(hostname.name, "")]>>
         ELSE <<>>

\* rr_index.get(hostname, 0)
CounterGet(index, hostname) == IF hostname \in DOMAIN index THEN index[hostname] ELSE 0

\* the "[Proxy] Request from ..." lines printed so far
Requests == {i \in 1..Len(rrlog) : rrlog[i].line = "request"}

\* run_proxy accepts a connection and starts handle_client on a thread,
\* which reads the request, takes the Host header and prints a line
PxAccept(h) ==
    /\ px[h].pc = "idle"
    /\ Cardinality(Requests) < MaxProxyReq
    /\ \E hostname \in Hostnames :
          /\ px' = [px EXCEPT ![h] = [pc |-> "resolve", hostname |-> hostname]]
          /\ rrlog' = Append(rrlog, [line |-> "request"])
    /\ UNCHANGED <<srv, now, peerVars, trackerVars, rr_index, rr_lock>>

\* resolve_routing_policy up to the choice of the backend: no route, a
\* single backend, round-robin over several, or the first one for any
\* other policy
PxResolve(h) ==
    /\ px[h].pc = "resolve"
    /\ LET info == RouteInfo(px[h].hostname)
       IN px' = [px EXCEPT ![h] =
                    IF info = <<>> THEN [pc |-> "notfound", hostname |-> px[h].hostname]
                    ELSE IF Len(info[1].proxy_map) = 1 \/ info[1].policy # "round-robin"
                    THEN [pc |-> "forward", hostname |-> px[h].hostname,
                          target |-> info[1].proxy_map[1]]
                    ELSE [pc |-> "lock", hostname |-> px[h].hostname,
                          proxy_map |-> info[1].proxy_map]]
    /\ UNCHANGED <<srv, now, peerVars, trackerVars, rr_index, rr_lock, rrlog>>

\* the mutant below reads and writes the counter without the lock
PxLockFree(h) ==
    /\ px[h].pc = "lock"
    /\ px' = [px EXCEPT ![h].pc = "get"]
    /\ UNCHANGED <<srv, now, peerVars, trackerVars, rr_index, rr_lock, rrlog>>

\* with rr_lock: blocks until the lock is free
PxLock(h) ==
    /\ px[h].pc = "lock"
    /\ rr_lock = 0
    /\ rr_lock' = h
    /\ px' = [px EXCEPT ![h].pc = "get"]
    /\ UNCHANGED <<srv, now, peerVars, trackerVars, rr_index, rrlog>>

\* current_idx = rr_index.get(hostname, 0)
PxGet(h) ==
    /\ px[h].pc = "get"
    /\ px' = [px EXCEPT ![h] = [pc |-> "set", hostname |-> px[h].hostname,
                                proxy_map |-> px[h].proxy_map,
                                current_idx |-> CounterGet(rr_index, px[h].hostname)]]
    /\ UNCHANGED <<srv, now, peerVars, trackerVars, rr_index, rr_lock, rrlog>>

\* target_url = proxy_map[current_idx % len(proxy_map)];
\* rr_index[hostname] = current_idx + 1; the [LoadBalancing] line is
\* printed and the lock is released
PxSet(h) ==
    /\ px[h].pc = "set"
    /\ LET target == px[h].proxy_map[(px[h].current_idx % Len(px[h].proxy_map)) + 1]
       IN /\ rr_index' = [k \in DOMAIN rr_index \cup {px[h].hostname} |->
                             IF k = px[h].hostname THEN px[h].current_idx + 1
                             ELSE rr_index[k]]
          /\ rrlog' = Append(rrlog, [line |-> "lb", hostname |-> px[h].hostname,
                                     index |-> px[h].current_idx, target |-> target])
          /\ px' = [px EXCEPT ![h] = [pc |-> "forward", hostname |-> px[h].hostname,
                                      target |-> target]]
    /\ rr_lock' = 0
    /\ UNCHANGED <<srv, now, peerVars, trackerVars>>

\* forward_request to the backend, the response is sent to the client and
\* the connection is closed
PxForward(h) ==
    /\ px[h].pc = "forward"
    /\ px' = [px EXCEPT ![h] = [pc |-> "idle"]]
    /\ UNCHANGED <<srv, now, peerVars, trackerVars, rr_index, rr_lock, rrlog>>

\* no route for the host: 404 Not Found
PxNotFound(h) ==
    /\ px[h].pc = "notfound"
    /\ rrlog' = Append(rrlog, [line |-> "404", hostname |-> px[h].hostname])
    /\ px' = [px EXCEPT ![h] = [pc |-> "idle"]]
    /\ UNCHANGED <<srv, now, peerVars, trackerVars, rr_index, rr_lock>>

----------------------------------------------------------------------------
(* The clock *)

Tick ==
    /\ now < MaxTime
    /\ now' = now + 1
    /\ UNCHANGED <<srv, proxyVars, peerVars, trackerVars>>

----------------------------------------------------------------------------
(* Specifications *)

\* a peer and a tracker that have just been started
Init ==
    /\ now = 1
    /\ srv = "listening"
    /\ messages = <<>>
    /\ recent_keys = <<>>
    /\ ph = [h \in PeerThreads |-> IdlePeerThread]
    /\ plog = <<>>
    /\ appended = {}
    /\ nreq = 0
    /\ pwork = {}
    /\ bc = [pc |-> "idle"]
    /\ PEERS = <<>>
    /\ CHANNELS = <<>>
    /\ LOCK = 0
    /\ th = [h \in TrackerThreads |-> IdleThread]
    /\ tlog = <<>>
    /\ reg = [last |-> 0, fresh |-> FALSE]
    /\ rr_index = <<>>
    /\ rr_lock = 0
    /\ px = [h \in ProxyThreads |-> [pc |-> "idle"]]
    /\ rrlog = <<>>

\* the peer alone: nobody talks to the tracker
PeerInit == Init /\ work = {} /\ budget = 0

\* one peer, its handler threads interleaved as its server spawns them
PeerNext ==
    \/ Tick
    \/ \E h \in PeerThreads : PeerRecvStart(h)
    \/ \E h \in PeerThreads : PeerRecvGet(h)
    \/ \E h \in PeerThreads : PeerRecvDuplicate(h)
    \/ \E h \in PeerThreads : PeerRecvRecord(h)
    \/ \E h \in PeerThreads : PeerRecvAppend(h)
    \/ \E h \in PeerThreads : PeerDrainCopy(h)
    \/ \E h \in PeerThreads : PeerDrainClear(h)

PeerSpec == PeerInit /\ [][PeerNext]_vars

\* the number of entries above which the cache is pruned, less one
Fillers == 498

\* keys of deliveries of long ago
FillerKey(n) == "10.0.0.9|10009|general|" \o ToString(n)

\* a cache of 500 entries, as full as it gets without a prune: the key of
\* Alice's "hi" and one more key were recorded 6 seconds before the start of
\* the observation, the others at its start
FullCache ==
    LET old == {DedupeKey([from |-> Alice, channel |-> "team", message |-> "hi"]),
                FillerKey(0)}
    IN [k \in old \cup {FillerKey(n) : n \in 1..Fillers} |->
           IF k \in old THEN 1 - 6 ELSE 1]

\* the peer alone, its cache full
FullInit ==
    /\ now = 1
    /\ srv = "listening"
    /\ messages = <<>>
    /\ recent_keys = FullCache
    /\ ph = [h \in PeerThreads |-> IdlePeerThread]
    /\ plog = <<>>
    /\ appended = {}
    /\ nreq = 0
    /\ pwork = {}
    /\ bc = [pc |-> "idle"]
    /\ PEERS = <<>>
    /\ CHANNELS = <<>>
    /\ LOCK = 0
    /\ th = [h \in TrackerThreads |-> IdleThread]
    /\ tlog = <<>>
    /\ work = {}
    /\ budget = 0
    /\ reg = [last |-> 0, fresh |-> FALSE]
    /\ rr_index = <<>>
    /\ rr_lock = 0
    /\ px = [h \in ProxyThreads |-> [pc |-> "idle"]]
    /\ rrlog = <<>>

\* deliveries to a peer whose cache is full, its handler threads interleaved
\* as its server spawns them
FullNext ==
    \/ Tick
    \/ \E h \in PeerThreads : PeerRecvStart(h)
    \/ \E h \in PeerThreads : PeerRecvGet(h)
    \/ \E h \in PeerThreads : PeerRecvDuplicate(h)
    \/ \E h \in PeerThreads : PeerRecvRecord(h)
    \/ \E h \in PeerThreads : PeerPruneDelete(h)
    \/ \E h \in PeerThreads : PeerPruneRaise(h)
    \/ \E h \in PeerThreads : PeerRecvAppend(h)
    \/ \E h \in PeerThreads : PeerRecvFailed(h)

FullSpec == FullInit /\ [][FullNext]_vars

\* no other connection is being handled
PeerQuiet == \A h \in PeerThreads : ph[h].pc = "idle"

\* one peer whose clients send the next request after the previous answer
PeerSeqNext ==
    \/ Tick
    \/ \E h \in PeerThreads : PeerQuiet /\ PeerRecvStart(h)
    \/ \E h \in PeerThreads : PeerRecvGet(h)
    \/ \E h \in PeerThreads : PeerRecvDuplicate(h)
    \/ \E h \in PeerThreads : PeerRecvRecord(h)
    \/ \E h \in PeerThreads : PeerRecvAppend(h)
    \/ \E h \in PeerThreads : PeerQuiet /\ PeerDrainCopy(h)
    \/ \E h \in PeerThreads : PeerDrainClear(h)

PeerSeqSpec == PeerInit /\ [][PeerSeqNext]_vars

\* one peer whose inbox is polled by one client, which waits for the answer
\* before it polls again, while deliveries arrive at any time
DrainSeqNext ==
    \/ Tick
    \/ \E h \in PeerThreads : PeerRecvStart(h)
    \/ \E h \in PeerThreads : PeerRecvGet(h)
    \/ \E h \in PeerThreads : PeerRecvDuplicate(h)
    \/ \E h \in PeerThreads : PeerRecvRecord(h)
    \/ \E h \in PeerThreads : PeerRecvAppend(h)
    \/ \E h \in PeerThreads : (\A g \in PeerThreads : ph[g].pc # "clear") /\ PeerDrainCopy(h)
    \/ \E h \in PeerThreads : PeerDrainClear(h)

DrainSeqSpec == PeerInit /\ [][DrainSeqNext]_vars

\* one peer that is sent bodies of any kind, one request after the other
InboundNext ==
    \/ Tick
    \/ \E h \in PeerThreads : PeerQuiet /\ PeerRecvAny(h)
    \/ \E h \in PeerThreads : PeerRecvFailed(h)
    \/ \E h \in PeerThreads : PeerRecvGet(h)
    \/ \E h \in PeerThreads : PeerRecvDuplicate(h)
    \/ \E h \in PeerThreads : PeerRecvRecord(h)
    \/ \E h \in PeerThreads : PeerRecvAppend(h)

InboundSpec == PeerInit /\ [][InboundNext]_vars

----------------------------------------------------------------------------
(* Tracker specifications *)

Alice2 == [ip |-> "10.0.0.1", port |-> 10001, name |-> "alice-again"]

\* requests of every route, some of them repeated, from clients that do not
\* wait for each other
TrackerWork ==
    { [id |-> 1, after |-> {}, route |-> "submit-info", obj |-> Alice],
      [id |-> 2, after |-> {}, route |-> "submit-info", obj |-> Alice2],
      [id |-> 3, after |-> {}, route |-> "submit-info", obj |-> Bob],
      [id |-> 4, after |-> {}, route |-> "add-list", channel |-> "team", peer |-> Alice],
      [id |-> 5, after |-> {}, route |-> "add-list", channel |-> "team", peer |-> Alice],
      [id |-> 6, after |-> {}, route |-> "add-list", channel |-> "team", peer |-> Bob],
      [id |-> 7, after |-> {}, route |-> "add-list", channel |-> "private", peer |-> Alice],
      [id |-> 8, after |-> {}, route |-> "get-list", channel |-> Null],
      [id |-> 9, after |-> {}, route |-> "get-list", channel |-> "team"],
      [id |-> 10, after |-> {}, route |-> "broadcast-peer", from |-> Alice, channel |-> "team",
       message |-> "hi"],
      [id |-> 11, after |-> {}, route |-> "broadcast-peer", from |-> Alice, channel |-> "private",
       message |-> "psst"],
      [id |-> 12, after |-> {}, route |-> "broadcast-peer", from |-> Bob, channel |-> "team",
       message |-> "yo"],
      [id |-> 13, after |-> {}, route |-> "connect-peer",
       to |-> [ip |-> Alice.ip, port |-> Alice.port]] }

TrackerInit == Init /\ work = TrackerWork /\ budget = MaxTrackerReq

TrackerNext ==
    \/ TTick
    \/ \E h \in TrackerThreads : TAccept(h)
    \/ \E h \in TrackerThreads : TAcquire(h)
    \/ \E h \in TrackerThreads : TSubmitCritical(h)
    \/ \E h \in TrackerThreads : TSubmitRespond(h)
    \/ \E h \in TrackerThreads : TListCritical(h)
    \/ \E h \in TrackerThreads : TListRespond(h)
    \/ \E h \in TrackerThreads : TAddCritical(h)
    \/ \E h \in TrackerThreads : TAddRespond(h)
    \/ \E h \in TrackerThreads : TBroadcastCritical(h)
    \/ \E h \in TrackerThreads : TForwardSkip(h)
    \/ \E h \in TrackerThreads : TForwardAttempt(h)
    \/ \E h \in TrackerThreads : TBroadcastRespond(h)
    \/ \E h \in TrackerThreads : TConnectCritical(h)
    \/ \E h \in TrackerThreads : TConnectRespond(h)

TrackerSpec == TrackerInit /\ [][TrackerNext]_vars

\* three peers register; Bob then joins "team" and Alice then broadcasts to
\* it; Carol is added to "team" by a client that does not wait for her
\* registration
FanoutWork ==
    { [id |-> 1, after |-> {}, route |-> "submit-info", obj |-> Alice],
      [id |-> 2, after |-> {}, route |-> "submit-info", obj |-> Bob],
      [id |-> 3, after |-> {}, route |-> "submit-info", obj |-> Carol],
      [id |-> 4, after |-> {2}, route |-> "add-list", channel |-> "team", peer |-> Bob],
      [id |-> 5, after |-> {}, route |-> "add-list", channel |-> "team", peer |-> Carol],
      [id |-> 6, after |-> {1}, route |-> "broadcast-peer", from |-> Alice, channel |-> "team",
       message |-> "hi"] }

FanoutInit == Init /\ work = FanoutWork /\ budget = Cardinality(FanoutWork)

FanoutNext ==
    \/ TTick
    \/ \E h \in TrackerThreads : TAccept(h)
    \/ \E h \in TrackerThreads : TAcquire(h)
    \/ \E h \in TrackerThreads : TSubmitCritical(h)
    \/ \E h \in TrackerThreads : TSubmitRespond(h)
    \/ \E h \in TrackerThreads : TAddCritical(h)
    \/ \E h \in TrackerThreads : TAddRespond(h)
    \/ \E h \in TrackerThreads : TBroadcastCritical(h)
    \/ \E h \in TrackerThreads : TForwardSkip(h)
    \/ \E h \in TrackerThreads : TForwardAttempt(h)
    \/ \E h \in TrackerThreads : TBroadcastRespond(h)

FanoutSpec == FanoutInit /\ [][FanoutNext]_vars

\* a peer record that lacks its name, one that lacks its ip
Dave == [ip |-> "10.0.0.4", port |-> 10004]
Erin == [port |-> 10005, name |-> "erin"]

\* registrations, well-formed and not, the join of "general" that
\* Peer.register_to_tracker sends after the answer to its registration, and
\* lookups
RegistryWork ==
    { [id |-> 1, after |-> {}, route |-> "submit-info", obj |-> Alice],
      [id |-> 2, after |-> {1}, route |-> "add-list", channel |-> "general", peer |-> Alice],
      [id |-> 3, after |-> {}, route |-> "submit-info", obj |-> Alice2],
      [id |-> 4, after |-> {}, route |-> "submit-info", obj |-> Dave],
      [id |-> 5, after |-> {}, route |-> "submit-info", obj |-> Erin],
      [id |-> 6, after |-> {}, route |-> "submit-info", form |-> "text"],
      [id |-> 7, after |-> {}, route |-> "submit-info", form |-> "array"],
      [id |-> 8, after |-> {}, route |-> "connect-peer", to |-> [ip |-> Alice.ip, port |-> Alice.port]],
      [id |-> 9, after |-> {}, route |-> "connect-peer", to |-> [ip |-> Bob.ip, port |-> Bob.port]],
      [id |-> 10, after |-> {}, route |-> "connect-peer"],
      [id |-> 11, after |-> {1}, route |-> "connect-peer",
       to |-> [ip |-> Alice.ip, port |-> Alice.port]] }

RegistryInit == Init /\ work = RegistryWork /\ budget = MaxTrackerReq

RegistryNext ==
    \/ TTick
    \/ \E h \in TrackerThreads : TAccept(h)
    \/ \E h \in TrackerThreads : TAcquire(h)
    \/ \E h \in TrackerThreads : TSubmitCritical(h)
    \/ \E h \in TrackerThreads : TSubmitRaise(h)
    \/ \E h \in TrackerThreads : TSubmitRespond(h)
    \/ \E h \in TrackerThreads : TAddCritical(h)
    \/ \E h \in TrackerThreads : TAddRespond(h)
    \/ \E h \in TrackerThreads : TConnectCritical(h)
    \/ \E h \in TrackerThreads : TConnectRespond(h)
    \/ \E h \in TrackerThreads : TReject(h)
    \/ \E h \in TrackerThreads : TFault(h)

RegistrySpec == RegistryInit /\ [][RegistryNext]_vars

\* Alice and Bob register and join "team" (each joins after the answer to
\* its registration), and then Alice broadcasts "hi" to "team" once
SetupWork ==
    { [id |-> 1, after |-> {}, route |-> "submit-info", obj |-> Alice],
      [id |-> 2, after |-> {1}, route |-> "add-list", channel |-> "team", peer |-> Alice],
      [id |-> 3, after |-> {}, route |-> "submit-info", obj |-> Bob],
      [id |-> 4, after |-> {3}, route |-> "add-list", channel |-> "team", peer |-> Bob] }

\* ... through the tracker's relay
RelayedHi ==
    [id |-> 5, after |-> {2, 4}, route |-> "broadcast-peer", from |-> Alice,
     channel |-> "team", message |-> "hi"]

\* ... or with Peer.broadcast, which starts by asking for the member list
DirectHi ==
    [id |-> 5, after |-> {2, 4}, route |-> "get-list", channel |-> "team",
     sender |-> Alice, message |-> "hi"]

\* once the tracker has answered Alice's registration, a client relays a
\* message of hers through the tracker
StartWork ==
    { [id |-> 5, after |-> {10}, route |-> "broadcast-peer", from |-> Alice,
       channel |-> "general", message |-> "hi"] }

\* the peer table and the channel table after Bob's and Carol's peers were
\* started
StartPeers ==
    [p \in {PeerId(Bob), PeerId(Carol)} |->
        IF p = PeerId(Bob) THEN Stamped(Bob, 1) ELSE Stamped(Carol, 1)]
StartChannels ==
    [c \in {"general"} |-> [peers |-> {PeerId(Bob), PeerId(Carol)}, messages |-> <<>>]]

\* Alice's peer has been constructed, start has not been called; Bob and
\* Carol are registered members of "general"
StartInit ==
    /\ now = 1
    /\ srv = "none"
    /\ messages = <<>>
    /\ recent_keys = <<>>
    /\ ph = [h \in PeerThreads |-> IdlePeerThread]
    /\ plog = <<>>
    /\ appended = {}
    /\ nreq = 0
    /\ pwork = {}
    /\ bc = [pc |-> "new", me |-> Alice]
    /\ PEERS = StartPeers
    /\ CHANNELS = StartChannels
    /\ LOCK = 0
    /\ th = [h \in TrackerThreads |-> IdleThread]
    /\ tlog = <<>>
    /\ reg = [last |-> 0, fresh |-> FALSE]
    /\ rr_index = <<>>
    /\ rr_lock = 0
    /\ px = [h \in ProxyThreads |-> [pc |-> "idle"]]
    /\ rrlog = <<>>
    /\ work = StartWork
    /\ budget = Cardinality(StartWork) + 3

StartNext ==
    \/ StartServer
    \/ ServerBind
    \/ ServerBindFails
    \/ ServerListen
    \/ StartRegister
    \/ StartRegisterLost
    \/ StartRegistered
    \/ StartJoin
    \/ StartJoinLost
    \/ StartJoined
    \/ BAsk
    \/ BStart
    \/ BAttempt
    \/ \E h \in TrackerThreads : TAccept(h)
    \/ \E h \in TrackerThreads : TAcquire(h)
    \/ \E h \in TrackerThreads : TSubmitCritical(h)
    \/ \E h \in TrackerThreads : TSubmitRespond(h)
    \/ \E h \in TrackerThreads : TListCritical(h)
    \/ \E h \in TrackerThreads : TListRespond(h)
    \/ \E h \in TrackerThreads : TAddCritical(h)
    \/ \E h \in TrackerThreads : TAddRespond(h)
    \/ \E h \in TrackerThreads : TBroadcastCritical(h)
    \/ \E h \in TrackerThreads : TForwardSkip(h)
    \/ \E h \in TrackerThreads : TForwardAttempt(h)
    \/ \E h \in TrackerThreads : TBroadcastRespond(h)

StartSpec == StartInit /\ [][StartNext]_vars

\* the proxy alone, one thread per accepted connection
ProxyInit == Init /\ work = {} /\ budget = 0

ProxyNext ==
    \/ \E h \in ProxyThreads : PxAccept(h)
    \/ \E h \in ProxyThreads : PxResolve(h)
    \/ \E h \in ProxyThreads : PxLock(h)
    \/ \E h \in ProxyThreads : PxGet(h)
    \/ \E h \in ProxyThreads : PxSet(h)
    \/ \E h \in ProxyThreads : PxForward(h)
    \/ \E h \in ProxyThreads : PxNotFound(h)

ProxySpec == ProxyInit /\ [][ProxyNext]_vars

\* a request on the wire: the request line ("ok", or "short" when it has
\* fewer than two parts), the method, the network location of the target
\* character by character, the route its path names, and the chunks it
\* arrives in: the size of each and how much of the request has arrived
\* with it
Wire(id, method, route, chunks) ==
    [id |-> id, after |-> {}, line |-> "ok", method |-> method, netloc |-> <<>>,
     route |-> route, chunks |-> chunks]

Whole == <<[size |-> 180, upto |-> "all"]>>

\* connections made to the tracker: one that sends nothing, one with a
\* one-word request line, preflights, registrations that arrive whole, in
\* two short chunks, or in a full chunk and a short one, the other routes, a
\* join of a channel whose name cannot be printed, and a lookup without `to`
TrackerConns ==
    { [id |-> 1, after |-> {}, line |-> "ok", method |-> "", netloc |-> <<>>, route |-> "",
       chunks |-> <<>>],
      [id |-> 2, after |-> {}, line |-> "short", method |-> "", netloc |-> <<>>, route |-> "",
       chunks |-> <<[size |-> 5, upto |-> "all"]>>],
      WithField(Wire(3, "OPTIONS", "submit-info", Whole), "obj", Alice),
      WithField(Wire(4, "OPTIONS", "", Whole), "netloc", <<"[">>),
      WithField(Wire(5, "POST", "submit-info", Whole), "obj", Bob),
      WithField(Wire(6, "POST", "submit-info",
                     <<[size |-> 120, upto |-> "head"], [size |-> 60, upto |-> "all"]>>),
                "obj", Alice),
      WithField(Wire(7, "POST", "submit-info",
                     <<[size |-> 150, upto |-> "part"], [size |-> 30, upto |-> "all"]>>),
                "obj", Carol),
      WithField(Wire(8, "POST", "submit-info",
                     <<[size |-> 8192, upto |-> "part"], [size |-> 300, upto |-> "all"]>>),
                "obj", Alice2),
      Wire(9, "GET", "nothing", Whole),
      Wire(10, "GET", "submit-info", Whole),
      WithField(Wire(11, "GET", "get-list", Whole), "channel", "team"),
      WithField(WithField(Wire(12, "POST", "add-list", Whole), "channel", "team"),
                "peer", Bob),
      WithField(WithField(WithField(Wire(13, "POST", "broadcast-peer", Whole),
                                    "channel", "team"), "from", Alice), "message", "hi"),
      WithField(Wire(14, "POST", "connect-peer", Whole), "to",
                [ip |-> Bob.ip, port |-> Bob.port]),
      WithField(WithField(Wire(15, "POST", "add-list", Whole), "channel", "<U+D800>"),
                "peer", Alice),
      Wire(16, "POST", "connect-peer", Whole) }

TrackerConnInit == Init /\ work = TrackerConns /\ budget = MaxTrackerReq

\* handler thread h of the tracker takes a step
TrackerConnStep(h) ==
    \/ TRecv(h)
    \/ TRecvIdle(h)
    \/ TParse(h)
    \/ TOptions(h)
    \/ TNotFound(h)
    \/ TSendFails(h)
    \/ TAcquire(h)
    \/ TSubmitCritical(h)
    \/ TSubmitRaise(h)
    \/ TSubmitRespond(h)
    \/ TListCritical(h)
    \/ TListRespond(h)
    \/ TAddCritical(h)
    \/ TAddRespond(h)
    \/ TAddPrintRaises(h)
    \/ TBroadcastCritical(h)
    \/ TForwardSkip(h)
    \/ TForwardAttempt(h)
    \/ TBroadcastRespond(h)
    \/ TConnectCritical(h)
    \/ TConnectRespond(h)
    \/ TReject(h)
    \/ TFault(h)

TrackerConnNext ==
    \/ \E h \in TrackerThreads : TConnAccept(h)
    \/ \E h \in TrackerThreads : TrackerConnStep(h)

\* a handler thread that can take a step does so
TrackerConnSpec ==
    TrackerConnInit /\ [][TrackerConnNext]_vars
        /\ \A h \in TrackerThreads : WF_vars(TrackerConnStep(h))

\* handler thread h of the peer takes a step
PeerConnStep(h) ==
    \/ PeerConnData(h)
    \/ PeerOptions(h)
    \/ PeerNotFound(h)
    \/ PeerRecvGet(h)
    \/ PeerRecvDuplicate(h)
    \/ PeerRecvRecord(h)
    \/ PeerRecvAppend(h)
    \/ PeerDrainClear(h)

PeerConnNext ==
    \/ \E h \in PeerThreads : PeerConnAccept(h)
    \/ \E h \in PeerThreads : PeerConnStep(h)

\* a handler thread that can take a step does so; a client that is going to
\* send or to close does so
PeerConnSpec ==
    PeerInit /\ [][PeerConnNext]_vars /\ \A h \in PeerThreads : WF_vars(PeerConnStep(h))

\* Alice, Bob and Dave (who registered without a name) join "team"; Alice
\* calls Peer.broadcast("hi", "team") once she has joined
BroadcastWork ==
    { [id |-> 1, after |-> {}, route |-> "submit-info", obj |-> Alice],
      [id |-> 2, after |-> {1}, route |-> "add-list", channel |-> "team", peer |-> Alice],
      [id |-> 3, after |-> {}, route |-> "submit-info", obj |-> Bob],
      [id |-> 4, after |-> {3}, route |-> "add-list", channel |-> "team", peer |-> Bob],
      [id |-> 5, after |-> {}, route |-> "submit-info", obj |-> Dave],
      [id |-> 6, after |-> {5}, route |-> "add-list", channel |-> "team", peer |-> Dave],
      [id |-> 7, after |-> {2}, route |-> "get-list", channel |-> "team",
       sender |-> Alice, message |-> "hi"] }

BroadcastInit == Init /\ work = BroadcastWork /\ budget = Cardinality(BroadcastWork)

BroadcastNext ==
    \/ \E h \in TrackerThreads : TAccept(h)
    \/ \E h \in TrackerThreads : TAcquire(h)
    \/ \E h \in TrackerThreads : TSubmitCritical(h)
    \/ \E h \in TrackerThreads : TSubmitRespond(h)
    \/ \E h \in TrackerThreads : TListCritical(h)
    \/ \E h \in TrackerThreads : TListRespond(h)
    \/ \E h \in TrackerThreads : TAddCritical(h)
    \/ \E h \in TrackerThreads : TAddRespond(h)
    \/ BStart
    \/ BAttempt

BroadcastSpec == BroadcastInit /\ [][BroadcastNext]_vars

\* Alice and Bob register, Bob joins "team" and Alice broadcasts to it
\* through the tracker; Bob is slow to answer.  The other requests come from
\* clients that call while the fan-out waits for Bob.
SlowPeerWork ==
    { [id |-> 1, after |-> {}, route |-> "submit-info", obj |-> Alice],
      [id |-> 2, after |-> {1}, route |-> "submit-info", obj |-> Bob],
      [id |-> 3, after |-> {2}, route |-> "add-list", channel |-> "team", peer |-> Bob],
      [id |-> 4, after |-> {3}, route |-> "broadcast-peer", from |-> Alice,
       channel |-> "team", message |-> "hi"],
      [id |-> 5, after |-> {}, route |-> "submit-info", obj |-> Carol],
      [id |-> 6, after |-> {}, route |-> "add-list", channel |-> "team", peer |-> Carol],
      [id |-> 7, after |-> {}, route |-> "get-list", channel |-> "team"],
      [id |-> 8, after |-> {}, route |-> "connect-peer",
       to |-> [ip |-> Bob.ip, port |-> Bob.port]] }

\* the requests of SlowPeerWork that lead up to the broadcast
SlowPeerSetup == {r \in SlowPeerWork : r.id <= 4}

SlowPeerInit == Init /\ work = SlowPeerWork /\ budget = Cardinality(SlowPeerWork)

\* a fan-out is inside s.recv, waiting for a peer
FanoutBlocked == \E g \in TrackerThreads : th[g].pc = "await"

\* run_tracker accepts a connection: one of the setup, or one made while a
\* fan-out is blocked
SlowPeerAccept(h) ==
    /\ TAccept(h)
    /\ \A r \in work \ work' : r \in SlowPeerSetup \/ FanoutBlocked

\* the steps of handler h that touch only the tracker's own memory and the
\* client's connection
RegistryStep(h) ==
    \/ TAcquire(h)
    \/ TSubmitCritical(h)
    \/ TSubmitRespond(h)
    \/ TListCritical(h)
    \/ TListRespond(h)
    \/ TAddCritical(h)
    \/ TAddRespond(h)
    \/ TBroadcastCritical(h)
    \/ TConnectCritical(h)
    \/ TConnectRespond(h)

SlowPeerNext ==
    \/ \E h \in TrackerThreads : SlowPeerAccept(h)
    \/ \E h \in TrackerThreads : TAcquire(h)
    \/ \E h \in TrackerThreads : TSubmitCritical(h)
    \/ \E h \in TrackerThreads : TSubmitRespond(h)
    \/ \E h \in TrackerThreads : TListCritical(h)
    \/ \E h \in TrackerThreads : TListRespond(h)
    \/ \E h \in TrackerThreads : TAddCritical(h)
    \/ \E h \in TrackerThreads : TAddRespond(h)
    \/ \E h \in TrackerThreads : TBroadcastCritical(h)
    \/ \E h \in TrackerThreads : TConnectCritical(h)
    \/ \E h \in TrackerThreads : TConnectRespond(h)
    \/ \E h \in TrackerThreads : TForwardSkip(h)
    \/ \E h \in TrackerThreads : TForwardDeliver(h)
    \/ \E h \in TrackerThreads : TForwardTimeout(h)
    \/ \E h \in TrackerThreads : TBroadcastRespond(h)

\* a handler thread that can run does run; how long a peer takes is up to
\* the peer
SlowPeerSpec ==
    /\ SlowPeerInit
    /\ [][SlowPeerNext]_vars
    /\ \A h \in TrackerThreads : WF_vars(RegistryStep(h))

\* Alice and Bob register and join a channel; Alice then sends "hi" to it
\* both ways: through the tracker's relay and with Peer.broadcast
TwoPathWork(channel) ==
    { [id |-> 1, after |-> {}, route |-> "submit-info", obj |-> Alice],
      [id |-> 2, after |-> {1}, route |-> "add-list", channel |-> channel, peer |-> Alice],
      [id |-> 3, after |-> {2}, route |-> "submit-info", obj |-> Bob],
      [id |-> 4, after |-> {3}, route |-> "add-list", channel |-> channel, peer |-> Bob],
      [id |-> 5, after |-> {4}, route |-> "broadcast-peer", from |-> Alice,
       channel |-> channel, message |-> "hi"],
      [id |-> 6, after |-> {4}, route |-> "get-list", channel |-> channel,
       sender |-> Alice, message |-> "hi"] }

\* Bob is the listening peer and handles one delivery after the other
TwoPathInit ==
    /\ Init
    /\ work \in {TwoPathWork("team"), TwoPathWork("general")}
    /\ budget = Cardinality(work)

TwoPathNext ==
    \/ TTick
    \/ \E h \in TrackerThreads : TAccept(h)
    \/ \E h \in TrackerThreads : TAcquire(h)
    \/ \E h \in TrackerThreads : TSubmitCritical(h)
    \/ \E h \in TrackerThreads : TSubmitRespond(h)
    \/ \E h \in TrackerThreads : TListCritical(h)
    \/ \E h \in TrackerThreads : TListRespond(h)
    \/ \E h \in TrackerThreads : TAddCritical(h)
    \/ \E h \in TrackerThreads : TAddRespond(h)
    \/ \E h \in TrackerThreads : TBroadcastCritical(h)
    \/ \E h \in TrackerThreads : TForwardSkip(h)
    \/ \E h \in TrackerThreads : TForwardDeliver(h)
    \/ \E h \in TrackerThreads : TForwardAwait(h)
    \/ \E h \in TrackerThreads : TBroadcastRespond(h)
    \/ BStart
    \/ BDeliver
    \/ BAwait
    \/ \E h \in PeerThreads : PeerQuiet /\ PeerRecvAccept(h)
    \/ \E h \in PeerThreads : PeerRecvGet(h)
    \/ \E h \in PeerThreads : PeerRecvDuplicate(h)
    \/ \E h \in PeerThreads : PeerRecvRecord(h)
    \/ \E h \in PeerThreads : PeerRecvAppend(h)

TwoPathSpec == TwoPathInit /\ [][TwoPathNext]_vars

\* Alice and Bob register and join "team"; Alice then sends "hi" and a
\* second message through the tracker from two clients that do not wait for
\* each other
RelayWork(second) ==
    { [id |-> 1, after |-> {}, route |-> "submit-info", obj |-> Alice],
      [id |-> 2, after |-> {1}, route |-> "add-list", channel |-> "team", peer |-> Alice],
      [id |-> 3, after |-> {2}, route |-> "submit-info", obj |-> Bob],
      [id |-> 4, after |-> {3}, route |-> "add-list", channel |-> "team", peer |-> Bob],
      [id |-> 5, after |-> {4}, route |-> "broadcast-peer", from |-> Alice,
       channel |-> "team", message |-> "hi"],
      [id |-> 6, after |-> {4}, route |-> "broadcast-peer", from |-> Alice,
       channel |-> "team", message |-> second] }

\* Bob is the listening peer; his server spawns a handler per delivery
RelayInit ==
    /\ Init
    /\ work \in {RelayWork("yo"), RelayWork("hi")}
    /\ budget = Cardinality(work)

RelayNext ==
    \/ TTick
    \/ \E h \in TrackerThreads : TAccept(h)
    \/ \E h \in TrackerThreads : TAcquire(h)
    \/ \E h \in TrackerThreads : TSubmitCritical(h)
    \/ \E h \in TrackerThreads : TSubmitRespond(h)
    \/ \E h \in TrackerThreads : TAddCritical(h)
    \/ \E h \in TrackerThreads : TAddRespond(h)
    \/ \E h \in TrackerThreads : TBroadcastCritical(h)
    \/ \E h \in TrackerThreads : TForwardSkip(h)
    \/ \E h \in TrackerThreads : TForwardDeliver(h)
    \/ \E h \in TrackerThreads : TForwardAwait(h)
    \/ \E h \in TrackerThreads : TBroadcastRespond(h)
    \/ \E h \in PeerThreads : PeerRecvAccept(h)
    \/ \E h \in PeerThreads : PeerRecvGet(h)
    \/ \E h \in PeerThreads : PeerRecvDuplicate(h)
    \/ \E h \in PeerThreads : PeerRecvRecord(h)
    \/ \E h \in PeerThreads : PeerRecvAppend(h)

RelaySpec == RelayInit /\ [][RelayNext]_vars

\* Bob is the listening peer; his inbox is polled at any time
EndToEndInit ==
    /\ Init
    /\ work \in {SetupWork \cup {RelayedHi}, SetupWork \cup {DirectHi}}
    /\ budget = Cardinality(work)

EndToEndNext ==
    \/ TTick
    \/ \E h \in TrackerThreads : TAccept(h)
    \/ \E h \in TrackerThreads : TAcquire(h)
    \/ \E h \in TrackerThreads : TSubmitCritical(h)
    \/ \E h \in TrackerThreads : TSubmitRespond(h)
    \/ \E h \in TrackerThreads : TListCritical(h)
    \/ \E h \in TrackerThreads : TListRespond(h)
    \/ \E h \in TrackerThreads : TAddCritical(h)
    \/ \E h \in TrackerThreads : TAddRespond(h)
    \/ \E h \in TrackerThreads : TBroadcastCritical(h)
    \/ \E h \in TrackerThreads : TForwardSkip(h)
    \/ \E h \in TrackerThreads : TForwardDeliver(h)
    \/ \E h \in TrackerThreads : TForwardAwait(h)
    \/ \E h \in TrackerThreads : TBroadcastRespond(h)
    \/ BStart
    \/ BDeliver
    \/ BAwait
    \/ \E h \in PeerThreads : PeerRecvAccept(h)
    \/ \E h \in PeerThreads : PeerRecvGet(h)
    \/ \E h \in PeerThreads : PeerRecvRecord(h)
    \/ \E h \in PeerThreads : PeerRecvAppend(h)
    \/ \E h \in PeerThreads : PeerDrainCopy(h)
    \/ \E h \in PeerThreads : PeerDrainClear(h)

EndToEndSpec == EndToEndInit /\ [][EndToEndNext]_vars

----------------------------------------------------------------------------
(* What the peer's clients observed *)

Receives == {i \in 1..Len(plog) : plog[i].kind = "receive"}
Drains == {i \in 1..Len(plog) : plog[i].kind = "drain"}
Accepted == {i \in Receives : plog[i].status = "ok"}

\* the ids of the messages in a list of inbox entries
Ids(list) == {list[k].id : k \in 1..Len(list)}
\* the drains that returned message m
ReturnedBy(m) == {i \in Drains : m \in Ids(plog[i].out)}
\* no drain is between its copy and its clear
NoDrainRunning == \A h \in PeerThreads : ph[h].pc # "clear"

----------------------------------------------------------------------------
(* Claims about the peer *)

\* C1: with drains and inbound deliveries interleaved in any way, every
\* message that was appended to the inbox is either still queued or was
\* returned by exactly one drain: none is lost between a drain's copy and
\* its clear, none is returned twice.
C1_InboxDrainAtomic ==
    NoDrainRunning =>
        \A m \in appended :
            Cardinality(ReturnedBy(m)) + (IF m \in Ids(messages) THEN 1 ELSE 0) = 1

\* C2: among deliveries of one dedupe key that arrive less than 2 seconds
\* apart, handled concurrently, at most one is answered 'ok' (and queued);
\* the others are answered 'duplicate_ignored'.
C2_FirstSeenWins ==
    \A i \in Receives : \A j \in Receives :
        (i < j /\ plog[i].key = plog[j].key
               /\ plog[i].ts - plog[j].ts < 2 /\ plog[j].ts - plog[i].ts < 2)
            => ~(plog[i].status = "ok" /\ plog[j].status = "ok")

\* C3: with deliveries handled one after the other, a delivery is answered
\* 'duplicate_ignored' exactly when the same key was accepted less than 2
\* seconds before it, and 'ok' otherwise (first occurrence, or 2 seconds or
\* more after the accepted one); exactly the deliveries answered 'ok' are
\* appended to the inbox, one message each.
C3_DedupeWindowSequential ==
    /\ \A i \in Receives :
          plog[i].status = "ok" <=>
              \A j \in Accepted :
                  (j < i /\ plog[j].key = plog[i].key) => plog[i].ts - plog[j].ts >= 2
    /\ appended = {plog[i].id : i \in Accepted}
    /\ PeerQuiet =>
          Len(messages) + Cardinality(UNION {Ids(plog[d].out) : d \in Drains})
              = Cardinality(Accepted)

\* the same payload answered 'ok', then 'duplicate_ignored' within the
\* window, then 'ok' again once the window has passed
C3_Witness ==
    \E i \in Receives : \E j \in Receives : \E k \in Receives :
        /\ i < j /\ j < k
        /\ plog[i].key = plog[j].key /\ plog[j].key = plog[k].key
        /\ plog[i].status = "ok"
        /\ plog[j].status = "duplicate_ignored" /\ plog[j].ts - plog[i].ts < 2
        /\ plog[k].status = "ok" /\ plog[k].ts - plog[i].ts >= 2

----------------------------------------------------------------------------
(* What the tracker's clients observed *)

Answered(route) == {i \in 1..Len(tlog) : tlog[i].route = route}
Relayed == {i \in Answered("broadcast-peer") : tlog[i].req.channel # "private"}
Whispered == {i \in Answered("broadcast-peer") : tlog[i].req.channel = "private"}
LastAnswer == tlog'[Len(tlog')]

\* the step is taken by handler thread h
Acts(h) == th'[h] # th[h]
\* thread record t belongs to a /broadcast-peer on channel "private"
ServesPrivate(t) == Route(t) = "broadcast-peer" /\ t.req.channel = "private"
\* the peers of a broadcast's list that are not its sender, in list order
Targets(r) ==
    LET NotSender(p) == PeerId(p) # r.pid
    IN SelectSeq(r.resp.peers, NotSender)
\* the peer ids named by a list of fan-out results or attempts
Named(list) == {list[k].peer : k \in 1..Len(list)}

----------------------------------------------------------------------------
(* Claims about the tracker *)

C4_Step ==
    \A h \in TrackerThreads :
        /\ ( /\ Acts(h) /\ th[h].pc = "critical" /\ Route(th[h]) = "submit-info"
             /\ PeerId(th[h].req.obj) \in DOMAIN PEERS )
           => LET obj == th[h].req.obj
                  pid == PeerId(obj)
              IN /\ DOMAIN PEERS' = DOMAIN PEERS
                 /\ Cardinality({k \in DOMAIN PEERS' : PeerId(PEERS'[k]) = pid}) = 1
                 /\ PEERS'[pid].ip = obj.ip /\ PEERS'[pid].port = obj.port
                 /\ PEERS'[pid].name = obj.name
                 /\ \A q \in DOMAIN PEERS \ {pid} : PEERS'[q] = PEERS[q]
        /\ ( /\ Acts(h) /\ th[h].pc = "count" /\ th[h].existed
             /\ reg.last > 0 /\ ~reg.fresh )
           => LastAnswer.resp.peers_count = reg.last

\* C4: a /submit-info for a peer id that is already a key of the peer table
\* overwrites that one record with the new payload, leaves every other record
\* and the number of entries as they were, and returns the peers_count the
\* previous registration returned unless a new identity registered in between.
C4_IdempotentRegistration == [][C4_Step]_vars

\* a registered identity registered again under another name and got the
\* same count
C4_Witness ==
    \E i \in Answered("submit-info") : \E j \in Answered("submit-info") :
        /\ i < j /\ tlog[j].existed /\ tlog[i].pid = tlog[j].pid
        /\ tlog[i].req.obj.name # tlog[j].req.obj.name
        /\ tlog[i].resp.peers_count = tlog[j].resp.peers_count

C5_Step ==
    \A h \in TrackerThreads :
        /\ (Acts(h) /\ th[h].pc = "critical" /\ Route(th[h]) = "add-list")
           => LET channel == th[h].req.channel
                  pid == PeerId(th[h].req.peer)
              IN /\ pid \in ChannelGet(CHANNELS, channel).peers => CHANNELS' = CHANNELS
                 /\ channel \notin DOMAIN CHANNELS =>
                        /\ DOMAIN CHANNELS' = DOMAIN CHANNELS \cup {channel}
                        /\ CHANNELS'[channel] = [peers |-> {pid}, messages |-> <<>>]
                 /\ \A c \in DOMAIN CHANNELS \ {channel} : CHANNELS'[c] = CHANNELS[c]
                 /\ PEERS' = PEERS
        /\ (Acts(h) /\ th[h].pc = "respond" /\ Route(th[h]) = "add-list")
           => LastAnswer.code = 200 /\ LastAnswer.resp = [status |-> "ok"]

C6_Inv ==
    /\ "private" \in DOMAIN CHANNELS => CHANNELS["private"].messages = <<>>
    /\ \A h \in TrackerThreads :
          ServesPrivate(th[h]) /\ th[h].pc = "forward" => th[h].attempts = <<>>
    /\ \A i \in Whispered :
          /\ tlog[i].code = 200
          /\ tlog[i].resp = [status |-> "ok", peers |-> <<>>, forwarded |-> <<>>]
          /\ tlog[i].attempts = <<>>

C6_Step ==
    \A h \in TrackerThreads :
        (Acts(h) /\ (ServesPrivate(th[h]) \/ ServesPrivate(th'[h])))
            => PEERS' = PEERS /\ CHANNELS' = CHANNELS

\* C6: the log of channel "private" is always empty; a /broadcast-peer on
\* "private" is answered status ok with no peers and nothing forwarded,
\* attempts no delivery, and none of its steps changes the peer table or the
\* channel table.
C6_PrivateIsolation == []C6_Inv /\ [][C6_Step]_vars

\* a broadcast on "private" was answered while "private" exists as a channel
C6_Witness ==
    /\ Whispered # {}
    /\ "private" \in DOMAIN CHANNELS

\* C9: the body of a /get-list response is the peer list and the message
\* log as they stood at the instant of its critical section.
C9_ListSnapshot ==
    \A i \in Answered("get-list") :
        /\ tlog[i].resp.peers = tlog[i].snap.peers
        /\ tlog[i].resp.messages = tlog[i].snap.messages

\* a relayed broadcast: its entry is in the channel's log and its sender is
\* a member of the channel
Published(r) ==
    /\ r.req.channel \in DOMAIN CHANNELS
    /\ \E k \in 1..Len(CHANNELS[r.req.channel].messages) :
          CHANNELS[r.req.channel].messages[k] = r.entry
    /\ r.pid \in CHANNELS[r.req.channel].peers

\* one attempt and one forwarded entry for each peer id of S, and no other
ForwardedExactly(r, S) ==
    /\ Named(r.resp.forwarded) = S
    /\ Len(r.resp.forwarded) = Cardinality(S)
    /\ Named(r.attempts) = S
    /\ Len(r.attempts) = Cardinality(S)

\* C10 as claimed: every member of the channel other than the sender gets a
\* delivery attempt and a forwarded entry.
C10_EveryMember ==
    \A i \in Relayed :
        Published(tlog[i]) /\ ForwardedExactly(tlog[i], tlog[i].members \ {tlog[i].pid})

\* C10 as amended: a non-private broadcast is appended to the channel's log,
\* its sender is a member afterwards, and exactly the members that have a
\* record in the peer table, other than the sender, get one delivery attempt
\* and one forwarded entry each.
C10_EveryRegisteredMember ==
    \A i \in Relayed :
        /\ Published(tlog[i])
        /\ ForwardedExactly(tlog[i], (tlog[i].members \cap tlog[i].known) \ {tlog[i].pid})

\* a registered sender relayed to a registered member while another member
\* had no record
C10_Witness ==
    \E i \in Relayed :
        /\ tlog[i].pid \in tlog[i].known
        /\ Len(tlog[i].resp.forwarded) >= 1
        /\ tlog[i].members \ tlog[i].known # {}

\* C7: a non-private broadcast is answered status ok whatever the deliveries
\* did; forwarded has one entry per target, in target order, with ok = true
\* where the target was reached and ok = false plus an error text where it
\* was not; every target is attempted, also after a failed one.
C7_PartialFailure ==
    \A i \in Relayed :
        LET r == tlog[i]
            targets == Targets(r)
        IN /\ r.code = 200 /\ r.resp.status = "ok"
           /\ Len(r.resp.forwarded) = Len(targets)
           /\ Len(r.attempts) = Len(targets)
           /\ \A k \in 1..Len(targets) :
                 /\ k <= Len(r.resp.forwarded) /\ k <= Len(r.attempts)
                 /\ r.resp.forwarded[k].peer = PeerId(targets[k])
                 /\ r.attempts[k].peer = PeerId(targets[k])
                 /\ r.resp.forwarded[k].ok = r.attempts[k].reached
                 /\ ~r.attempts[k].reached <=> "error" \in DOMAIN r.resp.forwarded[k]

\* two targets, the first unreachable, the second reached all the same
C7_Witness ==
    \E i \in Relayed :
        /\ Len(tlog[i].attempts) = 2 /\ Len(tlog[i].resp.forwarded) = 2
        /\ ~tlog[i].attempts[1].reached /\ ~tlog[i].resp.forwarded[1].ok
        /\ tlog[i].attempts[2].reached /\ tlog[i].resp.forwarded[2].ok

----------------------------------------------------------------------------
(* Claims about a broadcast from end to end *)

\* drain d is the first drain that started after the broadcast returned
FirstLateDrain(d) ==
    /\ plog[d].late
    /\ \A e \in Drains : plog[e].late => plog[e].id >= plog[d].id
    /\ \A h \in PeerThreads :
          (ph[h].pc = "clear" /\ ph[h].late) => ph[h].id >= plog[d].id

\* the list holds a message "hi" from Alice's ip and port
HoldsHi(list) ==
    \E k \in 1..Len(list) :
        /\ list[k].obj.message = "hi"
        /\ list[k].obj.from.ip = Alice.ip
        /\ list[k].obj.from.port = Alice.port

Undisturbed ==
    /\ \A e \in Drains : plog[e].late \/ plog[e].early
    /\ \A h \in PeerThreads : ph[h].pc = "clear" => ph[h].late

----------------------------------------------------------------------------
(* Claims about registration and lookup *)

\* C11: after a /submit-info was answered with success, the registered peer
\* id is a member of channel "general" in the channel table.
C11_RegisterJoinsGeneral ==
    \A i \in Answered("submit-info") :
        tlog[i].code = 200 =>
            /\ "general" \in DOMAIN CHANNELS
            /\ tlog[i].pid \in CHANNELS["general"].peers

\* the body is not a JSON object, or lacks one of ip, port, name
Malformed(r) ==
    \/ BodyForm(r) # "object"
    \/ ~({"ip", "port", "name"} \subseteq DOMAIN r.obj)

\* C12: a /submit-info whose body is not JSON, is not a JSON object, or lacks
\* one of ip, port, name is answered 400 with a description, and every record
\* of the peer table comes from a well-formed registration.
C12_RejectsMalformed ==
    /\ \A i \in Answered("submit-info") :
          Malformed(tlog[i].req) => tlog[i].code = 400 /\ "error" \in DOMAIN tlog[i].resp
    /\ \A p \in DOMAIN PEERS : {"ip", "port", "name"} \subseteq DOMAIN PEERS[p]

C13_Step ==
    /\ \A p \in DOMAIN PEERS : p \in DOMAIN PEERS'
    /\ \A p \in DOMAIN PEERS' :
          (p \notin DOMAIN PEERS \/ PEERS'[p] # PEERS[p]) =>
              \E h \in TrackerThreads :
                  /\ Acts(h) /\ th[h].pc = "critical" /\ Route(th[h]) = "submit-info"
                  /\ PeerId(th[h].req.obj) = p
                  /\ PEERS'[p] = Stamped(th[h].req.obj, now)
    /\ \A h \in TrackerThreads :
          /\ (Acts(h) /\ (Route(th[h]) = "connect-peer" \/ Route(th'[h]) = "connect-peer"))
             => PEERS' = PEERS /\ CHANNELS' = CHANNELS
          /\ (Acts(h) /\ th[h].pc = "critical" /\ Route(th[h]) = "connect-peer")
             => LET pid == PeerId(th[h].req.to)
                IN th'[h].info = IF pid \in DOMAIN PEERS THEN <<PEERS[pid]>> ELSE <<>>
          /\ (Acts(h) /\ th[h].pc = "found")
             => IF th[h].info = <<>>
                THEN LastAnswer.code = 404 /\ "error" \in DOMAIN LastAnswer.resp
                ELSE LastAnswer.code = 200 /\ LastAnswer.resp = [peer |-> th[h].info[1]]

----------------------------------------------------------------------------
(* Claims about channel membership *)

\* peer id p is a member of channel c after the step and was not before
Enrolled(c, p) ==
    /\ c \in DOMAIN CHANNELS'
    /\ p \in CHANNELS'[c].peers
    /\ p \notin ChannelGet(CHANNELS, c).peers

\* the step is the critical section of an /add-list for (c, p)
JoinOf(c, p) ==
    \E h \in TrackerThreads :
        /\ Acts(h) /\ th[h].pc = "critical" /\ Route(th[h]) = "add-list"
        /\ th[h].req.channel = c /\ PeerId(th[h].req.peer) = p

\* the step is the critical section of a /broadcast-peer on c sent by p
BroadcastBy(c, p) ==
    \E h \in TrackerThreads :
        /\ Acts(h) /\ th[h].pc = "critical" /\ Route(th[h]) = "broadcast-peer"
        /\ th[h].req.channel = c /\ c # "private" /\ PeerId(th[h].req.from) = p

\* C14 as claimed: a peer id becomes a member of a channel only in the step
\* of an /add-list for that channel and that peer.
C14_OnlyJoin ==
    [][\A c \in DOMAIN CHANNELS' : \A p \in CHANNELS'[c].peers : Enrolled(c, p) => JoinOf(c, p)]_vars

\* C14 as amended: a peer id becomes a member of a channel only in the step
\* of an /add-list for that channel and that peer, or of a broadcast on
\* that (non-private) channel whose sender it is; registering and listing
\* add no member.
C14_OnlyJoinOrSender ==
    [][\A c \in DOMAIN CHANNELS' : \A p \in CHANNELS'[c].peers :
          Enrolled(c, p) => (JoinOf(c, p) \/ BroadcastBy(c, p))]_vars

\* Bob became a member of "team" by broadcasting to it, Alice by joining it
C14_Witness ==
    /\ "team" \in DOMAIN CHANNELS
    /\ CHANNELS["team"].peers = {PeerId(Alice), PeerId(Bob)}
    /\ \E i \in Relayed : tlog[i].pid = PeerId(Bob)
    /\ \A i \in Answered("add-list") : tlog[i].pid # PeerId(Bob)
    /\ \E i \in Answered("add-list") : tlog[i].pid = PeerId(Alice)

\* C20: no step removes a channel from the channel table or a peer id from
\* a channel's member set.
C20_NoPruning ==
    [][\A c \in DOMAIN CHANNELS :
          /\ c \in DOMAIN CHANNELS'
          /\ CHANNELS[c].peers \subseteq CHANNELS'[c].peers]_vars

\* "team" has two members and a broadcast on it has been relayed by a sender
\* who was a member already
C20_Witness ==
    /\ "team" \in DOMAIN CHANNELS
    /\ Cardinality(CHANNELS["team"].peers) = 2
    /\ \E i \in Relayed : \E j \in Answered("add-list") :
          j < i /\ tlog[j].pid = tlog[i].pid /\ tlog[j].req.channel = "team"

----------------------------------------------------------------------------
(* Claims about Peer.broadcast *)

\* C15: Peer.broadcast never raises, and when it has returned it has
\* attempted every member of the list it got other than itself, whatever
\* the outcome of the earlier attempts and whatever the records hold.
C15_BroadcastNeverRaises ==
    /\ bc.pc # "raised"
    /\ bc.pc = "done" => Named(bc.tried) = {PeerId(bc.targets[k]) : k \in 1..Len(bc.targets)}

\* the member lists that calls of Peer.broadcast by `me` got from the tracker
ListsGot(me) ==
    {tlog[i].resp.peers : i \in {j \in Answered("get-list") :
                                   "sender" \in DOMAIN tlog[j].req /\ tlog[j].req.sender = me}}

\* C25: Peer.broadcast makes no delivery attempt at a record whose ip and
\* port are its own, whatever the member list holds, and when the list holds
\* nobody else it returns without any attempt.
C25_SelfExclusion ==
    bc.pc # "idle" =>
        /\ \A k \in 1..Len(bc.tried) : bc.tried[k].peer # PeerId(bc.me)
        /\ \A k \in 1..Len(bc.targets) : bc.targets[k].ip # bc.me.ip \/ bc.targets[k].port # bc.me.port
        /\ \A list \in ListsGot(bc.me) :
              (\A p \in list : PeerId(p) = PeerId(bc.me)) => bc.pc = "done" /\ bc.tried = <<>>

\* the list held the caller's own record and two others; both others were
\* attempted, the caller was not
C25_Witness ==
    /\ bc.pc # "idle"
    /\ \E list \in ListsGot(bc.me) :
          /\ \E p \in list : PeerId(p) = PeerId(bc.me)
          /\ Cardinality(list) = 3
    /\ Len(bc.tried) = 2

\* the list held nobody but the caller, who returned without an attempt
C25_AloneWitness ==
    /\ bc.pc = "done" /\ bc.tried = <<>>
    /\ \E list \in ListsGot(bc.me) : list # {} /\ \A p \in list : PeerId(p) = PeerId(bc.me)

----------------------------------------------------------------------------
(* Claims about the tracker's lock *)

\* handler h is in _forward_to_peers
InFanout(h) == th[h].pc \in {"forward", "await"}

\* handler h serves a request that is not a broadcast and is at its with LOCK
WaitsForLock(h) == th[h].pc = "acquire" /\ Route(th[h]) # "broadcast-peer"

\* C16: no handler holds LOCK while it is in the fan-out (connecting to,
\* sending to or waiting for a peer), and a /submit-info, /add-list,
\* /get-list or /connect-peer that reaches its with LOCK gets the lock and is
\* answered, however long a fan-out stays blocked on a peer.
C16_NoIoUnderLock ==
    /\ [](\A h \in TrackerThreads : InFanout(h) => LOCK # h)
    /\ \A h \in TrackerThreads : WaitsForLock(h) ~> th[h].pc = "idle"

\* requests made while the fan-out was waiting for Bob have been answered,
\* and the fan-out is still waiting
C16_Witness ==
    /\ FanoutBlocked
    /\ \E i \in 1..Len(tlog) : tlog[i].req \notin SlowPeerSetup
    /\ work = {}

----------------------------------------------------------------------------
(* Claims about inbound deliveries of any kind *)

\* C17: whatever the body, a delivery is answered 'duplicate_ignored' only
\* when its key was accepted less than 2 seconds before, every other
\* delivery is answered 'ok', and every delivery answered 'ok' has been
\* appended to the inbox.
C17_OkMeansQueued ==
    \A i \in Receives :
        /\ plog[i].status = "duplicate_ignored" =>
               \E j \in Accepted :
                   j < i /\ plog[j].key = plog[i].key /\ plog[i].ts - plog[j].ts < 2
        /\ plog[i].status = "ok" => plog[i].id \in appended

----------------------------------------------------------------------------
(* Claims about the two delivery paths *)

\* C18: one message sent to a channel both through the tracker's relay and
\* directly reaches the listening peer twice within 2 seconds: the first
\* arrival is answered 'ok' and queued, the later one is answered
\* 'duplicate_ignored', so the message is in the inbox once; for any channel.
C18_OncePerMessage ==
    /\ \A i \in Receives : \A j \in Receives :
          (i < j /\ plog[j].ts - plog[i].ts < 2) =>
              plog[i].status = "ok" /\ plog[j].status = "duplicate_ignored"
    /\ Cardinality(appended) <= 1

----------------------------------------------------------------------------
(* Claims about drains that follow each other *)

\* no delivery was accepted between the answers to drains i and j
NothingBetween(i, j) == \A k \in Accepted : ~(i < k /\ k < j)

\* C19: when each drain starts after the previous one has completed, no
\* message is in the results of two drains, and a drain that follows another
\* drain with no accepted delivery in between returns the empty list.
C19_DrainsPartition ==
    \A i \in Drains : \A j \in Drains :
        i < j =>
            /\ Ids(plog[i].out) \cap Ids(plog[j].out) = {}
            /\ NothingBetween(i, j) => plog[j].out = <<>>

\* a drain returned a message and the drain right after it returned nothing
C19_Witness ==
    \E i \in Drains : \E j \in Drains :
        /\ i < j /\ NothingBetween(i, j)
        /\ plog[i].out # <<>> /\ plog[j].out = <<>>

----------------------------------------------------------------------------
(* Claims about the lifetime of peer records and channels *)

\* answer i is a successful registration that lookup j waited for
RegisteredBefore(i, j) ==
    /\ tlog[i].route = "submit-info" /\ tlog[i].code = 200
    /\ tlog[i].id \in tlog[j].req.after
    /\ tlog[i].pid = tlog[j].pid

Touches(c) ==
    \E h \in TrackerThreads :
        /\ Acts(h) /\ th[h].pc = "critical"
        /\ \/ Route(th[h]) = "add-list"
           \/ Route(th[h]) = "broadcast-peer" /\ c # "private"
        /\ th[h].req.channel = c

\* thread h is handling a /get-list?channel=C for a channel C that was not
\* in the table when it looked
ListsUnknown(h) ==
    /\ Route(th[h]) = "get-list"
    /\ th[h].req.channel # Null
    /\ \/ th[h].pc = "critical" /\ th[h].req.channel \notin DOMAIN CHANNELS
       \/ th[h].pc = "serialize" /\ th[h].listof = Null

\* C28: a channel enters the channel table exactly in the step that applies
\* an /add-list for it or a non-private /broadcast-peer on it; a /get-list
\* for a channel that is not in the table leaves the table as it is and is
\* answered with no peers and no messages.
C28_LazyChannels ==
    [][/\ \A c \in DOMAIN CHANNELS' : c \notin DOMAIN CHANNELS => Touches(c)
       /\ \A c \in {"team", "private", "general"} : Touches(c) => c \in DOMAIN CHANNELS'
       /\ \A h \in TrackerThreads :
             (Acts(h) /\ ListsUnknown(h)) =>
                 /\ CHANNELS' = CHANNELS
                 /\ th[h].pc = "critical" =>
                        th'[h].peers = {} /\ th'[h].listof = Null
                 /\ th[h].pc = "serialize" =>
                        /\ tlog'[Len(tlog')].code = 200
                        /\ tlog'[Len(tlog')].resp = [peers |-> {}, messages |-> <<>>]]_vars

\* a listing of "team" was answered empty, "team" is still not a channel,
\* and "private" is one because somebody joined it
C28_Witness ==
    /\ "team" \notin DOMAIN CHANNELS
    /\ "private" \in DOMAIN CHANNELS
    /\ \E i \in Answered("get-list") :
          /\ tlog[i].req.channel = "team"
          /\ tlog[i].resp = [peers |-> {}, messages |-> <<>>]

----------------------------------------------------------------------------
(* Claims about the dedupe window *)

\* the step answers a delivery with 'duplicate_ignored'
Suppresses ==
    /\ Len(plog') = Len(plog) + 1
    /\ plog'[Len(plog')].kind = "receive"
    /\ plog'[Len(plog')].status = "duplicate_ignored"

\* the latest accepted delivery of key before answer k, 0 when there is none
LastAccepted(key, k) ==
    LET S == {i \in Accepted : i < k /\ plog[i].key = key}
    IN IF S = {} THEN 0 ELSE CHOOSE i \in S : \A j \in S : j <= i

\* C26: the step that answers 'duplicate_ignored' changes neither the inbox
\* nor the dedupe cache, so with deliveries handled one after the other the
\* time recorded for a key is the time of its last accepted delivery, and
\* a delivery of the key that arrives 2 seconds or more after that one is
\* accepted, however many duplicates were suppressed in between.
C26_FixedWindow ==
    /\ [][Suppresses => messages' = messages /\ recent_keys' = recent_keys]_vars
    /\ [](\A k \in Receives :
            LET i == LastAccepted(plog[k].key, k)
            IN (i # 0 /\ plog[k].ts - plog[i].ts >= 2) => plog[k].status = "ok")
    /\ [](PeerQuiet =>
            \A key \in DOMAIN recent_keys :
                LET i == LastAccepted(key, Len(plog) + 1)
                IN i # 0 /\ recent_keys[key] = plog[i].ts)

\* a payload was accepted, suppressed a second later, and accepted again
\* less than 2 seconds after the suppressed one; the cache holds the time of
\* the second acceptance
C26_Witness ==
    \E i \in Accepted : \E j \in Receives : \E k \in Accepted :
        /\ i < j /\ j < k
        /\ plog[i].key = plog[j].key /\ plog[j].key = plog[k].key
        /\ plog[j].status = "duplicate_ignored"
        /\ plog[k].ts - plog[j].ts < 2
        /\ plog[k].ts - plog[i].ts >= 2
        /\ recent_keys[plog[k].key] = plog[k].ts

----------------------------------------------------------------------------
(* Claims about retries *)

\* the calls of kind `kind` to route `route` in the peer's record
Calls(kind, route) == {i \in 1..Len(plog) : plog[i].kind = kind /\ plog[i].route = route}

\* no peer id is named twice in a list of attempts
OncePerTarget(list) == \A k, l \in 1..Len(list) : k # l => list[k].peer # list[l].peer

\* C24: Peer.start sends at most one /submit-info and at most one
\* /add-list; nothing is sent after a call has failed, so a failed
\* registration is followed by no /add-list and no second /submit-info; one
\* Peer.broadcast and one tracker fan-out attempt each target at most once.
C24_NoRetry ==
    /\ Cardinality(Calls("sent", "submit-info")) <= 1
    /\ Cardinality(Calls("sent", "add-list")) <= 1
    /\ \A i \in Calls("failed", "submit-info") \cup Calls("failed", "add-list") :
          \A j \in Calls("sent", "submit-info") \cup Calls("sent", "add-list") : j < i
    /\ Calls("failed", "submit-info") # {} => Calls("sent", "add-list") = {}
    /\ Cardinality(Calls("failed", "submit-info") \cup Calls("failed", "add-list")) <= 1
    /\ "tried" \in DOMAIN bc => OncePerTarget(bc.tried)
    /\ \A h \in TrackerThreads : th[h].pc = "forward" => OncePerTarget(th[h].attempts)
    /\ \A i \in Relayed : OncePerTarget(tlog[i].attempts) /\ OncePerTarget(tlog[i].resp.forwarded)

\* the registration went out and failed on the way back; the tracker
\* registered Alice all the same; no /add-list was sent; a broadcast of hers
\* failed to reach a target and went on to the next
C24_Witness ==
    /\ Calls("sent", "submit-info") # {}
    /\ Calls("failed", "submit-info") # {}
    /\ PeerId(Alice) \in DOMAIN PEERS
    /\ "tried" \in DOMAIN bc
    /\ Len(bc.tried) = 2
    /\ ~bc.tried[1].reached
    /\ \E i \in Relayed : \E k \in 1..Len(tlog[i].attempts) : ~tlog[i].attempts[k].reached

----------------------------------------------------------------------------
(* Claims about the order of a fan-out *)

\* C27: within one broadcast call the attempt at target i+1 starts only
\* after the attempts at targets 1..i have ended, so at most one attempt is
\* open at a time, and the call ends after exactly one attempt at each
\* target, in list order.
C27_SequentialFanout ==
    /\ "tried" \in DOMAIN bc =>
          /\ bc.pc \in {"send", "await"} => Len(bc.tried) = bc.i - 1
          /\ bc.pc \in {"done", "raised"} =>
                /\ Len(bc.tried) = Len(bc.targets)
                /\ \A k \in 1..Len(bc.targets) : bc.tried[k].peer = PeerId(bc.targets[k])
    /\ \A h \in TrackerThreads :
          InFanout(h) => Len(th[h].attempts) <= th[h].i - 1
    /\ \A i \in Relayed :
          /\ Len(tlog[i].attempts) = Len(Targets(tlog[i]))
          /\ \A k \in 1..Len(tlog[i].attempts) :
                tlog[i].attempts[k].peer = PeerId(Targets(tlog[i])[k])

----------------------------------------------------------------------------
(* Claims about the proxy *)

\* the [LoadBalancing] lines printed for hostname, in the order of printing
Balanced(hostname) ==
    LET Mine(l) == l.line = "lb" /\ l.hostname = hostname
    IN SelectSeq(rrlog, Mine)

\* C30: for a hostname routed round-robin over several backends, the n
\* calls of resolve_routing_policy made for it so far, however their
\* threads interleave, have read the counter values 0..n-1, each once, and
\* call number k went to backend (k-1) mod the number of backends.
C30_RoundRobin ==
    \A hostname \in Hostnames :
        LET L == Balanced(hostname)
        IN /\ \A k \in 1..Len(L) :
                /\ L[k].index = k - 1
                /\ L[k].target = RouteInfo(hostname)[1].proxy_map[((k - 1) % 2) + 1]
           /\ (\A h \in ProxyThreads : px[h].pc # "set" \/ px[h].hostname # hostname)
                 => CounterGet(rr_index, hostname) = Len(L)

\* a call for "app.local" was balanced, another is between reading and
\* writing the counter under the lock and a third thread waits for the lock
C30_Witness ==
    /\ Len(Balanced(Hostname("app.local", ""))) = 1
    /\ \E h \in ProxyThreads : px[h].pc = "set" /\ px[h].current_idx = 1
    /\ \E h \in ProxyThreads : px[h].pc = "lock"

----------------------------------------------------------------------------
(* Claims about connections *)

\* every connection the tracker accepted is closed in the end
TrackerReleases == \A h \in TrackerThreads : (th[h].pc # "idle") ~> (th[h].pc = "idle")

\* every connection the peer accepted is closed in the end
PeerReleases == \A h \in PeerThreads : (ph[h].pc # "idle") ~> (ph[h].pc = "idle")

\* C23: every connection that the tracker or a peer has accepted is closed
\* in the end: its handler terminates on every path.
C23_EventuallyReleased == TrackerReleases /\ PeerReleases

\* tracker handler h has read an OPTIONS request
ServesOptions(h) ==
    /\ th[h].pc \notin {"idle", "recv"}
    /\ th[h].req.line = "ok" /\ th[h].req.chunks # <<>>
    /\ th[h].req.method = "OPTIONS"

\* C22: an OPTIONS request, whatever its path and body, is answered 200
\* with an empty body by the tracker and by the peer, no route handler runs
\* for it, and the peer table, the channel table, the inbox and the dedupe
\* cache are left as they were.
C22_OptionsShortCircuit ==
    /\ [](\A i \in 1..Len(tlog) :
            (tlog[i].req.method = "OPTIONS" /\ tlog[i].code # 0)
                => tlog[i].code = 200 /\ tlog[i].resp = <<>>)
    /\ [](\A h \in TrackerThreads : ServesOptions(h) => th[h].pc \in {"parse", "options"})
    /\ [][\A h \in TrackerThreads :
            (ServesOptions(h) /\ Acts(h)) => PEERS' = PEERS /\ CHANNELS' = CHANNELS]_vars
    /\ [](\A i \in 1..Len(plog) : plog[i].kind = "options" => plog[i].code = 200)
    /\ [][\A h \in PeerThreads :
            (ph[h].pc = "options" /\ ph'[h] # ph[h])
                => messages' = messages /\ recent_keys' = recent_keys]_vars

\* the request that was sent on connection id
Sent(id) == CHOOSE r \in TrackerConns : r.id = id

\* C29: a request that reaches the tracker in several chunks, each shorter
\* than 8192 bytes and none later than the idle cutoff, is handled whole:
\* the route handler works on the body that was sent.
C29_WholeRequest ==
    /\ \A h \in TrackerThreads :
          th[h].pc \notin {"idle", "recv", "parse"} => th[h].req = Sent(th[h].req.id)
    /\ \A i \in 1..Len(tlog) : tlog[i].req = Sent(tlog[i].id)

----------------------------------------------------------------------------
(* Claims about rejected requests and the lock *)

\* the answers that are errors
Errors == {400, 404, 500}

\* request r was not refused: it was answered 200, or its connection ended
\* without an answer, or a handler has applied it and is yet to answer
Stands(r) ==
    \/ \E i \in 1..Len(tlog) : tlog[i].req = r /\ tlog[i].code \notin Errors
    \/ \E h \in TrackerThreads :
          /\ th[h].pc \in {"count", "respond", "forward", "await"}
          /\ th[h].req = r

\* the requests that the tracker has read
Read == {tlog[i].req : i \in 1..Len(tlog)} \cup
        {th[h].req : h \in {k \in TrackerThreads : th[k].pc \notin {"idle", "recv", "parse"}}}

\* request r, when applied, registers peer id p
Registers(r, p) == r.route = "submit-info" /\ HasIdentity(r) /\ PeerId(r.obj) = p

\* request r, when applied, makes p a member of channel c
Enrols(r, c, p) ==
    \/ r.route = "add-list" /\ r.channel = c /\ PeerId(r.peer) = p
    \/ r.route = "broadcast-peer" /\ r.channel = c /\ PeerId(r.from) = p

\* C31: a request that the tracker answers with 400, 404 or 500 leaves no
\* trace: every key of the peer table, every channel and every member of a
\* channel was put there by a request that was not refused, and no refused
\* request made a delivery attempt.
C31_RejectedChangeNothing ==
    /\ \A p \in DOMAIN PEERS : \E r \in Read : Registers(r, p) /\ Stands(r)
    /\ \A c \in DOMAIN CHANNELS : \E r \in Read :
          (r.route \in {"add-list", "broadcast-peer"} /\ r.channel = c) /\ Stands(r)
    /\ \A c \in DOMAIN CHANNELS : \A p \in CHANNELS[c].peers :
          \E r \in Read : Enrols(r, c, p) /\ Stands(r)
    /\ \A i \in 1..Len(tlog) :
          tlog[i].code \in Errors => "attempts" \notin DOMAIN tlog[i]

\* C32: the registry lock is never leaked: only a handler inside a critical
\* section holds it, a handler that has left its critical section through
\* an exception or has finished does not, and every handler that waits for
\* the lock gets it in the end.
C32_LockNeverLeaked ==
    /\ [](LOCK # 0 => th[LOCK].pc = "critical")
    /\ [](\A h \in TrackerThreads : th[h].pc \in {"idle", "fault"} => LOCK # h)
    /\ \A h \in TrackerThreads : (th[h].pc = "acquire") ~> (th[h].pc = "critical")

\* a handler is in its critical section after another one left its own
\* through an exception and was answered 500
C32_Witness ==
    /\ \E i \in 1..Len(tlog) :
          tlog[i].code = 500 /\ tlog[i].route = "submit-info"
    /\ LOCK # 0 /\ th[LOCK].pc = "critical"

----------------------------------------------------------------------------
(* Claims about the channel logs *)

\* the log of channel c in table C; empty when the channel is not there
Log(C, c) == IF c \in DOMAIN C THEN C[c].messages ELSE <<>>

\* sequence s is a prefix of sequence t
IsPrefix(s, t) == Len(s) <= Len(t) /\ SubSeq(t, 1, Len(s)) = s

\* handler h leaves the critical section of a /broadcast-peer that is not
\* private
Publishes(h) ==
    /\ th[h].pc = "critical" /\ Route(th[h]) = "broadcast-peer"
    /\ ~IsPrivate(th[h].req.channel)
    /\ th'[h].pc = "forward"

\* C33: channel logs are append-only: no channel is ever removed and the
\* log of a channel before a step is a prefix of its log after the step;
\* a /broadcast-peer that is accepted and not private appends exactly its
\* own entry to the log of its channel and leaves every other log alone,
\* and no other step changes a log.
C33_AppendOnly ==
    [][/\ DOMAIN CHANNELS \subseteq DOMAIN CHANNELS'
       /\ \A c \in DOMAIN CHANNELS' : IsPrefix(Log(CHANNELS, c), Log(CHANNELS', c))
       /\ \A h \in TrackerThreads : Publishes(h) =>
             /\ Log(CHANNELS', th[h].req.channel)
                    = Append(Log(CHANNELS, th[h].req.channel), th[h].entry)
             /\ \A c \in DOMAIN CHANNELS' \ {th[h].req.channel} :
                    Log(CHANNELS', c) = Log(CHANNELS, c)
       /\ (\A h \in TrackerThreads : ~Publishes(h)) =>
             \A c \in DOMAIN CHANNELS' : Log(CHANNELS', c) = Log(CHANNELS, c)]_vars

\* two accepted broadcasts are in the log of "team", one after the other
C33_Witness ==
    /\ "team" \in DOMAIN CHANNELS
    /\ Len(CHANNELS["team"].messages) = 2
    /\ \E i, j \in 1..Len(tlog) :
          /\ i # j
          /\ tlog[i].route = "broadcast-peer" /\ tlog[i].code = 200
          /\ tlog[j].route = "broadcast-peer" /\ tlog[j].code = 200
          /\ tlog[i].req.channel = "team" /\ tlog[j].req.channel = "team"

\* C34: every channel log is ordered by timestamp: the ts of its entries
\* never decreases along the log, also when /broadcast-peer handlers run
\* concurrently.
C34_LogOrderedByTime ==
    \A c \in DOMAIN CHANNELS :
        \A i, j \in 1..Len(CHANNELS[c].messages) :
            i < j => CHANNELS[c].messages[i].ts <= CHANNELS[c].messages[j].ts

\* the place of the entry with text m in the log of channel c
LogPlace(c, m) ==
    CHOOSE k \in 1..Len(CHANNELS[c].messages) : CHANNELS[c].messages[k].message = m

\* C35: the relay keeps the order of the log: of two different messages
\* that the tracker relayed to the listening peer, the one that is earlier
\* in the channel's log is earlier in the peer's inbox.
C35_RelayKeepsLogOrder ==
    \A i, j \in 1..Len(messages) :
        (i < j /\ messages[i].obj.message # messages[j].obj.message)
            => LogPlace("team", messages[i].obj.message)
                 < LogPlace("team", messages[j].obj.message)

\* C36: the tracker relays the channel with the message: the payload it
\* POSTs to /p2p/receive for a broadcast to "team" names the channel "team",
\* and so do the message that the peer queues and the dedupe key it records.
C36_RelayCarriesChannel ==
    /\ \A r \in pwork : r.body.channel = "team"
    /\ \A i \in 1..Len(messages) : messages[i].obj.channel = "team"
    /\ \A i \in 1..Len(plog) :
          plog[i].kind = "receive" =>
              \E m \in {"hi", "yo"} :
                  plog[i].key = DedupeKey([from |-> Alice, channel |-> "team", message |-> m])

----------------------------------------------------------------------------
(* Claims about the dedupe cache *)

\* C37: pruning takes from the dedupe cache only entries that are more than
\* 5 seconds old, which are outside the 2-second window, so that no answer
\* differs from that of a cache that never prunes.
C37_PruneOnlyOld ==
    [][\A k \in DOMAIN recent_keys \ DOMAIN recent_keys' : recent_keys[k] < now - 5]_vars

\* the tuple that the key is made of: sender ip and port ('' and 0 when
\* from is not an object or lacks them), channel or "general", message or
\* raw text
KeyTuple(obj) ==
    << IF HasSender(obj) /\ "ip" \in DOMAIN obj.from THEN obj.from.ip ELSE "",
       IF HasSender(obj) /\ "port" \in DOMAIN obj.from THEN obj.from.port ELSE 0,
       OrDefault(Get(obj, "channel"), "general"),
       OrDefault(Get(obj, "message"), OrDefault(Get(obj, "raw"), "")) >>

\* C38: a delivery is found to be a duplicate only of a delivery with the
\* same tuple (sender ip, sender port, channel or "general", message or raw
\* text): when a handler finds its key in the window, a message with the
\* same tuple has been accepted before, also when a component contains '|'
\* or from is not an object with ip and port.
C38_KeyFaithful ==
    \A h \in PeerThreads :
        (ph[h].pc = "check" /\ IsDuplicate(ph[h].last, ph[h].obj.ts))
            => \E k \in 1..Len(messages) :
                  KeyTuple(messages[k].obj) = KeyTuple(ph[h].obj)

----------------------------------------------------------------------------
(* Claims about Peer.start *)

\* C39: a peer that Peer.start has put into the tracker's peer table is
\* listening: whenever Alice's record is in the table, her server thread has
\* bound its socket and called listen.
C39_DiscoverableIsListening ==
    PeerId(Alice) \in DOMAIN PEERS => srv = "listening"

====
